---- MODULE Spec2Model ----
(***************************************************************************)
(* A model of the orchestration layer of personal-rss: the retry helpers   *)
(* (Utils.retry, ErrorHandler.retryWithLogging,                            *)
(* RetryManager.executeWithRetry), the feed aggregation of FeedFetcher,    *)
(* and the Scheduler / Daemon / RSSFeeder.run lifecycle.                    *)
(*                                                                         *)
(* Eight specifications share the variables of the module:                 *)
(*   SpecRetry     one call of a retry helper;                             *)
(*   SpecScripted  the three retry helpers called with one scripted fn;    *)
(*   SpecAgg       one call of FeedFetcher.getAllArticles;                 *)
(*   SpecRun       one call of RSSFeeder.run(), step by step;              *)
(*   SpecDaemon    one process running the daemon;                         *)
(*   SpecHarness   the daemon with process.exit replaced by a stub that    *)
(*                 returns, as in test/unit/daemon.test.js;                *)
(*   SpecScheduler a Scheduler object driven directly;                     *)
(*   SpecList      the list functions of the pipeline applied to a list.   *)
(* Each leaves the other parts' variables at their initial values.         *)
(***************************************************************************)
EXTENDS Integers, Sequences, FiniteSets, TLC

(***************************************************************************)
(* Bounds of the model.                                                    *)
(***************************************************************************)
\* largest value of the maxRetries setting explored by SpecRetry
MaxRetriesBound == 3
\* largest value of the MAX_RETRIES setting explored by SpecAgg
MaxRetriesAgg == 1
\* largest number of configured, enabled feeds explored by SpecAgg
NumSources == 3
\* number of cron ticks explored by SpecDaemon
MaxTicks == 2
\* number of shutdown events (signals, uncaught errors) explored by SpecDaemon
MaxEvents == 2
\* number of direct Scheduler.start() calls explored by SpecScheduler
MaxStarts == 2
\* number of direct Scheduler.stop() calls explored by SpecScheduler
MaxStops == 3
\* largest number of configured, enabled feeds explored by SpecRun
NumRunSources == 2
\* largest length of the record lists explored by SpecList
MaxListLen == 3

(***************************************************************************)
(* Program constants.                                                      *)
(***************************************************************************)
\* config.getRetryDelay() default, RETRY.DEFAULT_RETRY_DELAY
DEFAULT_RETRY_DELAY == 1000
\* TIME.ONE_DAY_MILLISECONDS, in the model's unit of time, the hour
ONE_DAY == 24

VARIABLES
  \* ---- one retry helper call ------------------------------------------
  rImpl,        \* which helper runs: "Utils", "ErrorHandler", "RetryManager"
  rMaxRetries,  \* the maxRetries argument (an integer, possibly negative)
  rBaseDelay,   \* the baseDelay argument, milliseconds
  rTimeout,     \* RetryManager option timeout: TRUE when one is set
  rUseExp,      \* RetryManager option useExponentialBackoff
  rpc,          \* "call", "attempting", "sleeping", "returned", "thrown"
  rAttempt,     \* the loop variable attempt
  rCalls,       \* number of invocations of fn so far
  rInFlight,    \* invocations of fn that have not settled yet
  rDelays,      \* the delays passed to sleep(), in order
  rFailKinds,   \* how each failed attempt ended: "error" or "timeout"
  rLastErr,     \* the error caught last
  rOut          \* what left the helper: a returned value or a thrown error

VARIABLES
  \* ---- the daemon process ---------------------------------------------
  env,            \* the configuration read from process.env, and whether
                  \* process.exit is the runtime's or a stub that returns
  alive,          \* FALSE once process.exit has terminated the process
  exitCalls,      \* the calls of process.exit so far: [code, by]
  dpc,            \* position of Daemon.start()
  isShuttingDown, \* Daemon.isShuttingDown
  stopCalls,      \* calls of Daemon.stop()
  shutdownRuns,   \* times the shutdown sequence of Daemon.stop() was entered
  warnings,       \* 'Shutdown already in progress...' warnings logged
  events,         \* the events whose handlers have run, in order
  task,           \* Scheduler.task: NoTask (null) or the id of a cron task
  isRunning,      \* Scheduler.isRunning
  liveTimers,     \* ids of the cron tasks started and not stopped
  timersCreated,  \* number of cron tasks created by cron.schedule
  schedStartCalls,  \* calls of Scheduler.start()
  schedStartThrows, \* calls of Scheduler.start() that threw
  schedStopCalls,   \* calls of Scheduler.stop()
  stoppedLogs,      \* 'Scheduler stopped' messages logged by Scheduler.stop()
  ticks,          \* matching cron instants so far (the clock)
  runs            \* the calls of RSSFeeder.run(), in order of their start

envVars == <<env>>
procVars == <<alive, exitCalls>>
daemonVars == <<dpc, isShuttingDown, stopCalls, shutdownRuns, warnings, events>>
schedVars == <<task, isRunning, liveTimers, timersCreated, schedStartCalls,
               schedStartThrows, schedStopCalls>>
logVars == <<stoppedLogs>>
runVars == <<ticks, runs>>
processVars == <<envVars, procVars, daemonVars, schedVars, logVars, runVars>>

VARIABLES
  \* ---- one call of FeedFetcher.getAllArticles --------------------------
  aNow,          \* the current time (hours) during the call
  aMaxRetries,   \* config.getMaxRetries()
  feedsWithTags, \* config.getRssFeedsWithTags(): the enabled feeds, in order
  apc,           \* "idle", "fetching" (awaiting Promise.allSettled), "done"
  feedPromises,  \* per feed url, the task started by feedUrls.map(async ...)
  failedCount,   \* fetchMultipleFeeds: failedCount
  allArticles    \* the list getAllArticles returns

VARIABLES
  \* ---- one call of RSSFeeder.run() -----------------------------------
  fpc,             \* position of run(): "call", "fetching", "labelSummaries",
                   \* "watchSummaries", "connecting", "tagFiles", "indexFile",
                   \* "kwConnecting", "keywordFiles", "returned", "done", "failed"
  fNow,            \* the current time (hours) during the run
  fFeeds,          \* config.getRssFeedsWithTags() during the run
  watchWords,      \* config.getWatchWords()
  fResults,        \* what each feed's fetch task settled with
  fArticles,       \* run(): articles
  processedData,   \* processArticles: processedData, in key order
  keywordData,     \* processKeywordArticles: processedData, in key order
  fIdx,            \* index of the bucket the current loop is at
  summaryCalls,    \* the summarization requests settled so far
  connectionTests, \* calls of ObsidianAPI.testConnection()
  writes,          \* the document writes started so far, with their state
  runError         \* the error caught by the catch block of run()

feederVars == <<fpc, fNow, fFeeds, watchWords, fResults, fArticles, processedData,
                keywordData, fIdx, summaryCalls, connectionTests, writes,
                runError>>

VARIABLES
  \* ---- the list functions applied to one record list -------------------
  lpc,            \* "input", "filtered", "deduped", "dedupedTwice", "grouped"
  lNow,           \* the current time (hours)
  lInput,         \* the record list the function is applied to
  lFiltered,      \* filterTodayArticles(lInput)
  lDeduped,       \* removeDuplicates(lInput)
  lDedupedTwice,  \* removeDuplicates(removeDuplicates(lInput))
  lGrouped,       \* groupArticlesByParentTags(lInput), in key order
  lWords,         \* the watch words
  lWatched        \* filterArticlesByKeywords(lInput, lWords), in key order

listVars == <<lpc, lNow, lInput, lFiltered, lDeduped, lDedupedTwice, lGrouped,
              lWords, lWatched>>

VARIABLES
  \* ---- the three retry helpers called with one scripted operation ------
  eScript,  \* the outcome of the k-th invocation of fn: "resolve" or "reject"
  eDone     \* what the helpers called so far did, in the order of the calls

scriptVars == <<eScript, eDone>>

aggVars == <<aNow, aMaxRetries, feedsWithTags, apc, feedPromises, failedCount,
             allArticles>>

retryVars == <<rImpl, rMaxRetries, rBaseDelay, rTimeout, rUseExp, rpc, rAttempt,
               rCalls, rInFlight, rDelays, rFailKinds, rLastErr, rOut>>

\* what each specification leaves alone
nonRetryVars == <<processVars, aggVars, feederVars, listVars, scriptVars>>
nonProcessVars == <<retryVars, aggVars, feederVars, listVars, scriptVars>>
nonAggVars == <<retryVars, processVars, feederVars, listVars, scriptVars>>
nonFeederVars == <<retryVars, aggVars, envVars, daemonVars, schedVars, logVars,
                   runVars, listVars, scriptVars>>
nonListVars == <<retryVars, processVars, aggVars, feederVars, scriptVars>>

vars == <<retryVars, processVars, aggVars, feederVars, listVars, scriptVars>>

(***************************************************************************)
(* Values.                                                                 *)
(***************************************************************************)
NoError == [kind |-> "none"]
\* the error fn rejects with on its n-th invocation
RawError(n) == [kind |-> "raw", n |-> n]
\* RetryManager.withTimeout: new Error(`${operation} timed out after ...`)
TimeoutError == [kind |-> "timeout"]
\* the context object handed to the helper for logging
OpContext == "ctx"

RECURSIVE Pow2(_)
\* Math.pow(2, n) for n >= 0
Pow2(n) == IF n <= 0 THEN 1 ELSE 2 * Pow2(n - 1)

\* ErrorHandler.createError(operation, message, context, originalError)
CreateError(context, originalError) ==
  [kind |-> "wrapped", context |-> context, originalError |-> originalError]

(***************************************************************************)
(* The retry helpers.  Utils.retry counts attempt from 0, the other two    *)
(* from 1.                                                                 *)
(***************************************************************************)
Impls == {"Utils", "ErrorHandler", "RetryManager"}

\* every helper counting attempt from 1
FirstAttemptOne(impl) == 1

\* the initial value of the loop variable
FirstAttempt(impl) == IF impl = "Utils" THEN 0 ELSE 1

\* the loop condition: attempt <= maxRetries (Utils), attempt <= maxRetries + 1
LoopCondition(impl, attempt, maxRetries) ==
  IF impl = "Utils" THEN attempt <= maxRetries ELSE attempt <= maxRetries + 1

\* IsFinalAttempt giving up one attempt early
IsFinalAttemptEarly(impl, attempt, maxRetries) ==
  IF impl = "Utils" THEN attempt + 1 >= maxRetries ELSE ~(attempt + 1 <= maxRetries)

\* in the catch block: is this the last attempt (the error is thrown on)?
IsFinalAttempt(impl, attempt, maxRetries) ==
  IF impl = "Utils" THEN attempt = maxRetries ELSE ~(attempt <= maxRetries)

\* BackoffDelay growing linearly instead of geometrically
BackoffDelayLinear(impl, attempt, baseDelay, useExp) ==
  CASE impl = "Utils"        -> baseDelay * (attempt + 1)
    [] impl = "ErrorHandler" -> baseDelay * attempt
    [] OTHER                 -> IF useExp THEN baseDelay * attempt ELSE baseDelay

\* the delay computed in the catch block before sleeping
BackoffDelay(impl, attempt, baseDelay, useExp) ==
  CASE impl = "Utils"        -> baseDelay * Pow2(attempt)
    [] impl = "ErrorHandler" -> baseDelay * Pow2(attempt - 1)
    [] OTHER                 -> IF useExp THEN baseDelay * Pow2(attempt - 1)
                                          ELSE baseDelay

\* the error that leaves the helper when it gives up
ThrownError(impl, context, error) ==
  IF impl = "Utils" THEN error ELSE CreateError(context, error)

(***************************************************************************)
(* SpecRetry: one call of a retry helper with an operation whose every     *)
(* attempt may resolve, reject, or (RetryManager with a timeout) be        *)
(* overtaken by the timer.                                                 *)
(***************************************************************************)
\* the retry variables before any call (the other specifications keep them so)
RetryIdle ==
  /\ rImpl = "Utils"
  /\ rMaxRetries = 0
  /\ rBaseDelay = DEFAULT_RETRY_DELAY
  /\ rTimeout = FALSE
  /\ rUseExp = TRUE
  /\ rpc = "call"
  /\ rAttempt = 0
  /\ rCalls = 0
  /\ rInFlight = 0
  /\ rDelays = <<>>
  /\ rFailKinds = <<>>
  /\ rLastErr = NoError
  /\ rOut = [kind |-> "pending"]

\* the aggregation variables before any call
AggIdle ==
  /\ aNow = 0
  /\ aMaxRetries = 0
  /\ feedsWithTags = <<>>
  /\ apc = "idle"
  /\ feedPromises = <<>>
  /\ failedCount = 0
  /\ allArticles = <<>>

\* the variables of run() before any call
FeederIdle ==
  /\ fpc = "call"
  /\ fNow = 0
  /\ fFeeds = <<>>
  /\ watchWords = <<>>
  /\ fResults = <<>>
  /\ fArticles = <<>>
  /\ processedData = <<>>
  /\ keywordData = <<>>
  /\ fIdx = 0
  /\ summaryCalls = <<>>
  /\ connectionTests = 0
  /\ writes = <<>>
  /\ runError = [kind |-> "none"]

\* the variables of the list functions before any input
ListIdle ==
  /\ lpc = "input"
  /\ lNow = 0
  /\ lInput = <<>>
  /\ lFiltered = <<>>
  /\ lDeduped = <<>>
  /\ lDedupedTwice = <<>>
  /\ lGrouped = <<>>
  /\ lWords = <<>>
  /\ lWatched = <<>>

\* no scripted operation, no helper called with one
ScriptIdle ==
  /\ eScript = <<>>
  /\ eDone = <<>>

\* Scheduler.task === null
NoTask == 0

\* the process variables right after `new Daemon()`, for the configuration e
ProcessConstructed(e) ==
  /\ env = e
  /\ alive = TRUE
  /\ exitCalls = <<>>
  /\ dpc = "new"
  /\ isShuttingDown = FALSE
  /\ stopCalls = 0
  /\ shutdownRuns = 0
  /\ warnings = 0
  /\ events = <<>>
  /\ task = NoTask
  /\ isRunning = FALSE
  /\ liveTimers = {}
  /\ timersCreated = 0
  /\ schedStartCalls = 0
  /\ schedStartThrows = 0
  /\ schedStopCalls = 0
  /\ stoppedLogs = 0
  /\ ticks = 0
  /\ runs = <<>>

\* the configuration of a default installation, run as a real process
DefaultEnv ==
  [scheduleEnabled |-> TRUE, cronValid |-> TRUE, runOnStart |-> FALSE,
   configValid |-> TRUE, exitStubbed |-> FALSE]

InitRetry ==
  /\ ListIdle
  /\ ScriptIdle
  /\ FeederIdle
  /\ ProcessConstructed(DefaultEnv)
  /\ AggIdle
  /\ rImpl \in Impls
  /\ rMaxRetries \in -1 .. MaxRetriesBound
  /\ rBaseDelay \in {DEFAULT_RETRY_DELAY, 250}
  /\ rTimeout \in IF rImpl = "RetryManager" THEN BOOLEAN ELSE {FALSE}
  /\ rUseExp \in IF rImpl = "RetryManager" THEN BOOLEAN ELSE {TRUE}
  /\ rpc = "call"
  /\ rAttempt = FirstAttempt(rImpl)
  /\ rCalls = 0
  /\ rInFlight = 0
  /\ rDelays = <<>>
  /\ rFailKinds = <<>>
  /\ rLastErr = NoError
  /\ rOut = [kind |-> "pending"]

\* The head of the for loop with loop variable value att: either fn is invoked
\* or the loop ends and the async function returns undefined.
LoopHead(att) ==
  /\ rAttempt' = att
  /\ IF LoopCondition(rImpl, att, rMaxRetries)
       THEN /\ rpc' = "attempting"
            /\ rCalls' = rCalls + 1
            /\ rInFlight' = rInFlight + 1
            /\ rOut' = rOut
       ELSE /\ rpc' = "returned"
            /\ rOut' = [kind |-> "undefined"]
            /\ UNCHANGED <<rCalls, rInFlight>>

\* the helper is called: the loop starts
RetryCall ==
  /\ rpc = "call"
  /\ LoopHead(FirstAttempt(rImpl))
  /\ UNCHANGED <<rImpl, rMaxRetries, rBaseDelay, rTimeout, rUseExp, rDelays,
                 rFailKinds, rLastErr>>
  /\ UNCHANGED nonRetryVars

\* fn() resolves: return await fn()
AttemptResolve ==
  /\ rpc = "attempting"
  /\ rpc' = "returned"
  /\ rOut' = [kind |-> "value", attempt |-> rCalls]
  /\ rInFlight' = rInFlight - 1
  /\ UNCHANGED <<rImpl, rMaxRetries, rBaseDelay, rTimeout, rUseExp, rAttempt,
                 rCalls, rDelays, rFailKinds, rLastErr>>
  /\ UNCHANGED nonRetryVars

\* the catch block, entered with error
CatchBlock(error, kind) ==
  /\ rLastErr' = error
  /\ rFailKinds' = Append(rFailKinds, kind)
  /\ IF IsFinalAttempt(rImpl, rAttempt, rMaxRetries)
       THEN /\ rpc' = "thrown"
            /\ rOut' = ThrownError(rImpl, OpContext, error)
            /\ rDelays' = rDelays
       ELSE /\ rpc' = "sleeping"
            /\ rDelays' = Append(rDelays,
                                 BackoffDelay(rImpl, rAttempt, rBaseDelay, rUseExp))
            /\ rOut' = rOut

\* fn() rejects
AttemptReject ==
  /\ rpc = "attempting"
  /\ CatchBlock(RawError(rCalls), "error")
  /\ rInFlight' = rInFlight - 1
  /\ UNCHANGED <<rImpl, rMaxRetries, rBaseDelay, rTimeout, rUseExp, rAttempt,
                 rCalls>>
  /\ UNCHANGED nonRetryVars

\* AttemptTimeout with the timeout error leaving the helper at once, unretried
AttemptTimeoutFatal ==
  /\ rpc = "attempting"
  /\ rImpl = "RetryManager"
  /\ rTimeout
  /\ rpc' = "thrown"
  /\ rLastErr' = TimeoutError
  /\ rFailKinds' = Append(rFailKinds, "timeout")
  /\ rOut' = CreateError(OpContext, TimeoutError)
  /\ UNCHANGED <<rImpl, rMaxRetries, rBaseDelay, rTimeout, rUseExp, rAttempt,
                 rCalls, rInFlight, rDelays>>
  /\ UNCHANGED nonRetryVars

\* RetryManager.withTimeout: the timer fires before fn() settles; the promise
\* rejects, fn() itself is not cancelled and stays in flight
AttemptTimeout ==
  /\ rpc = "attempting"
  /\ rImpl = "RetryManager"
  /\ rTimeout
  /\ CatchBlock(TimeoutError, "timeout")
  /\ UNCHANGED <<rImpl, rMaxRetries, rBaseDelay, rTimeout, rUseExp, rAttempt,
                 rCalls, rInFlight>>
  /\ UNCHANGED nonRetryVars

\* an invocation of fn that lost the race against the timer settles later;
\* resolve and reject of the settled promise are no-ops
OrphanSettle ==
  /\ rInFlight > (IF rpc = "attempting" THEN 1 ELSE 0)
  /\ rInFlight' = rInFlight - 1
  /\ UNCHANGED <<rImpl, rMaxRetries, rBaseDelay, rTimeout, rUseExp, rpc,
                 rAttempt, rCalls, rDelays, rFailKinds, rLastErr, rOut>>
  /\ UNCHANGED nonRetryVars

\* sleep(delay) resolves: attempt++ and the loop head again
SleepDone ==
  /\ rpc = "sleeping"
  /\ LoopHead(rAttempt + 1)
  /\ UNCHANGED <<rImpl, rMaxRetries, rBaseDelay, rTimeout, rUseExp, rDelays,
                 rFailKinds, rLastErr>>
  /\ UNCHANGED nonRetryVars

NextRetry ==
  \/ RetryCall
  \/ AttemptResolve
  \/ AttemptReject
  \/ AttemptTimeout
  \/ OrphanSettle
  \/ SleepDone

SpecRetry == InitRetry /\ [][NextRetry]_vars

(***************************************************************************)
(* SpecScripted: Utils.retry, ErrorHandler.retryWithLogging and            *)
(* RetryManager.executeWithRetry (exponential backoff, no timeout) called  *)
(* one after the other with the same maxRetries and baseDelay and with an  *)
(* operation fn whose k-th invocation settles as a script fixes.           *)
(***************************************************************************)
\* the helpers in the order they are called
ImplOrder == <<"Utils", "ErrorHandler", "RetryManager">>

\* the scripts: one outcome for each invocation the helpers can make
Scripts == [1 .. MaxRetriesBound + 1 -> {"resolve", "reject"}]

\* the retry variables at the call of helper impl
AtCall(impl) ==
  /\ rImpl' = impl
  /\ rpc' = "call"
  /\ rAttempt' = FirstAttempt(impl)
  /\ rCalls' = 0
  /\ rInFlight' = 0
  /\ rDelays' = <<>>
  /\ rFailKinds' = <<>>
  /\ rLastErr' = NoError
  /\ rOut' = [kind |-> "pending"]

InitScripted ==
  /\ ListIdle
  /\ FeederIdle
  /\ ProcessConstructed(DefaultEnv)
  /\ AggIdle
  /\ eScript \in Scripts
  /\ eDone = <<>>
  /\ rImpl = ImplOrder[1]
  /\ rMaxRetries \in -1 .. MaxRetriesBound
  /\ rBaseDelay \in {DEFAULT_RETRY_DELAY, 250}
  /\ rTimeout = FALSE
  /\ rUseExp = TRUE
  /\ rpc = "call"
  /\ rAttempt = FirstAttempt(rImpl)
  /\ rCalls = 0
  /\ rInFlight = 0
  /\ rDelays = <<>>
  /\ rFailKinds = <<>>
  /\ rLastErr = NoError
  /\ rOut = [kind |-> "pending"]

\* the invocation of fn in flight resolves, as the script says
ScriptedResolve ==
  /\ rpc = "attempting"
  /\ eScript[rCalls] = "resolve"
  /\ AttemptResolve

\* the invocation of fn in flight rejects, as the script says
ScriptedReject ==
  /\ rpc = "attempting"
  /\ eScript[rCalls] = "reject"
  /\ AttemptReject

\* what a helper that has ended did: the invocations of fn, the delays it
\* slept, how it ended and, when it returned fn's value, on which invocation
HelperSummary ==
  [impl |-> rImpl, calls |-> rCalls, delays |-> rDelays, failures |-> Len(rFailKinds),
   ended |-> rpc,
   result |-> IF rOut.kind = "value" THEN rOut.attempt
              ELSE IF rOut.kind = "undefined" THEN -1 ELSE 0]

\* the helper has ended: what it did is noted and the next helper is called
\* with the same arguments and a fresh fn following the same script
NextHelper ==
  /\ rpc \in {"returned", "thrown"}
  /\ Len(eDone) < Len(ImplOrder)
  /\ eDone' = Append(eDone, HelperSummary)
  /\ IF Len(eDone) + 1 < Len(ImplOrder)
       THEN AtCall(ImplOrder[Len(eDone) + 2])
       ELSE UNCHANGED <<rImpl, rpc, rAttempt, rCalls, rInFlight, rDelays,
                        rFailKinds, rLastErr, rOut>>
  /\ UNCHANGED <<rMaxRetries, rBaseDelay, rTimeout, rUseExp, eScript>>
  /\ UNCHANGED <<processVars, aggVars, feederVars, listVars>>

NextScripted ==
  \/ RetryCall
  \/ ScriptedResolve
  \/ ScriptedReject
  \/ SleepDone
  \/ NextHelper

SpecScripted == InitScripted /\ [][NextScripted]_vars

(***************************************************************************)
(* SpecDaemon: one process started by startDaemon(): `new Daemon()` has    *)
(* run (Init), then Daemon.start(), cron ticks, the pipeline runs they     *)
(* start, and the events whose handlers call Daemon.stop().  A handler     *)
(* runs to its next await in one step, as on the JavaScript event loop.    *)
(* process.exit ends the process: nothing runs after it.                   *)
(*                                                                         *)
(* SpecHarness: the same Daemon object driven as the unit tests drive it,  *)
(* with process.exit replaced by a stub that records the call and returns  *)
(* to its caller (env.exitStubbed), so that code after a process.exit call *)
(* runs and Daemon.stop() can be called again after it has run.            *)
(***************************************************************************)
Envs ==
  [scheduleEnabled : BOOLEAN, cronValid : BOOLEAN, runOnStart : BOOLEAN,
   configValid : BOOLEAN, exitStubbed : BOOLEAN]

\* the events Daemon.setupSignalHandlers registers a handler for
EventKinds == {"SIGTERM", "SIGINT", "uncaughtException", "unhandledRejection"}

InitDaemon ==
  /\ ListIdle
  /\ ScriptIdle
  /\ FeederIdle
  /\ RetryIdle
  /\ AggIdle
  /\ \E e \in Envs : ~e.exitStubbed /\ ProcessConstructed(e)

InitHarness ==
  /\ ListIdle
  /\ ScriptIdle
  /\ FeederIdle
  /\ RetryIdle
  /\ AggIdle
  /\ \E e \in Envs : e.exitStubbed /\ ProcessConstructed(e)

\* process.exit(code) called from `by`, after the calls `calls`
ProcessExit(calls, code, by) == Append(calls, [code |-> code, by |-> by])

\* isScheduleEnabled reporting scheduling enabled whatever is configured
IsScheduleEnabledAlways == TRUE

\* config.isScheduleEnabled()
IsScheduleEnabled == env.scheduleEnabled

\* isValidCronExpression accepting every expression
IsValidCronExpressionAlways == TRUE

\* Scheduler.isValidCronExpression(config.getScheduleCron())
IsValidCronExpression == env.cronValid

\* RSSFeeder.validateConfiguration() returns (does not throw)
ConfigurationValid == env.configValid

\* getRunOnStart never asking for an initial execution
GetRunOnStartNever == FALSE

\* config.getRunOnStart()
GetRunOnStart == env.runOnStart

\* RSSFeeder.startTime, set once by the constructor (tick 0)
FeederStartTime == 0

\* a call of RSSFeeder.run() that has reached its first await
NewRun(origin, at) ==
  [origin |-> origin, pc |-> "running", calledAt |-> at,
   startTime |-> FeederStartTime]

\* Scheduler.start() creating the cron task (scheduled: false) and never
\* starting it
SchedulerStartUnstarted ==
  /\ timersCreated' = timersCreated + 1
  /\ task' = timersCreated + 1
  /\ liveTimers' = liveTimers
  /\ isRunning' = TRUE
  /\ schedStartCalls' = schedStartCalls + 1
  /\ UNCHANGED <<schedStartThrows, schedStopCalls>>

\* Scheduler.start() past the validation: the cron task is created and
\* started (the temporary task of logNextExecutions is never started)
SchedulerStartOk ==
  /\ timersCreated' = timersCreated + 1
  /\ task' = timersCreated + 1
  /\ liveTimers' = liveTimers \cup {timersCreated + 1}
  /\ isRunning' = TRUE
  /\ schedStartCalls' = schedStartCalls + 1
  /\ UNCHANGED <<schedStartThrows, schedStopCalls>>

\* Scheduler.start() throwing Error('Invalid cron expression: ...')
SchedulerStartThrows ==
  /\ schedStartCalls' = schedStartCalls + 1
  /\ schedStartThrows' = schedStartThrows + 1
  /\ UNCHANGED <<task, isRunning, liveTimers, timersCreated, schedStopCalls>>

\* Daemon.start() from `this.scheduler.start()` to its end, catch included
StartScheduler(calls) ==
  IF IsValidCronExpression
    THEN /\ SchedulerStartOk
         /\ dpc' = "active"
         /\ exitCalls' = calls
         /\ alive' = alive
    ELSE /\ SchedulerStartThrows
         /\ dpc' = "startFailed"
         /\ exitCalls' = ProcessExit(calls, 1, "Daemon.start")
         /\ alive' = env.exitStubbed

\* Daemon.start() up to its first await
DaemonStart ==
  /\ alive
  /\ dpc = "new"
  /\ LET calls0 == IF IsScheduleEnabled
                     THEN exitCalls
                     ELSE ProcessExit(exitCalls, 1, "Daemon.start")
     IN  IF ~IsScheduleEnabled /\ ~env.exitStubbed
           THEN /\ exitCalls' = calls0
                /\ alive' = FALSE
                /\ dpc' = "startFailed"
                /\ UNCHANGED <<schedVars, runVars>>
           ELSE IF ~ConfigurationValid
             THEN /\ exitCalls' = ProcessExit(calls0, 1, "Daemon.start")
                  /\ alive' = env.exitStubbed
                  /\ dpc' = "startFailed"
                  /\ UNCHANGED <<schedVars, runVars>>
             ELSE IF GetRunOnStart
               THEN /\ runs' = Append(runs, NewRun("start", ticks))
                    /\ dpc' = "initialRun"
                    /\ exitCalls' = calls0
                    /\ UNCHANGED <<alive, ticks, schedVars>>
               ELSE /\ StartScheduler(calls0)
                    /\ UNCHANGED runVars
  /\ UNCHANGED <<env, isShuttingDown, stopCalls, shutdownRuns, warnings, events,
                 stoppedLogs>>
  /\ UNCHANGED nonProcessVars

\* A matching cron instant with a guard that skips the callback while a run
\* started earlier is in progress
TickSkippingOverlap ==
  /\ alive
  /\ liveTimers # {}
  /\ ticks < MaxTicks
  /\ ticks' = ticks + 1
  /\ runs' = IF \E i \in DOMAIN runs : runs[i].pc = "running"
              THEN runs
              ELSE runs \o [k \in 1 .. Cardinality(liveTimers) |->
                              NewRun("tick", ticks + 1)]
  /\ UNCHANGED <<envVars, procVars, daemonVars, schedVars, logVars>>
  /\ UNCHANGED nonProcessVars

\* A matching cron instant: every live cron task runs its callback, which
\* calls Scheduler.executeTask() and so RSSFeeder.run(), whether or not an
\* earlier run is still in progress.
Tick ==
  /\ alive
  /\ liveTimers # {}
  /\ ticks < MaxTicks
  /\ ticks' = ticks + 1
  /\ runs' = runs \o [k \in 1 .. Cardinality(liveTimers) |-> NewRun("tick", ticks + 1)]
  /\ UNCHANGED <<envVars, procVars, daemonVars, schedVars, logVars>>
  /\ UNCHANGED nonProcessVars

\* what follows the settling of run i: for the initial run, the rest of
\* Daemon.start(); for a scheduled run, the rest of executeTask (logging)
AfterRun(i, calls) ==
  IF runs[i].origin = "start" /\ dpc = "initialRun"
    THEN StartScheduler(calls)
    ELSE /\ exitCalls' = calls
         /\ alive' = alive
         /\ UNCHANGED <<dpc, schedVars>>

\* RSSFeeder.run() reaches its end (or an early return) without an error
RunReturns(i) ==
  /\ alive
  /\ runs[i].pc = "running"
  /\ ConfigurationValid
  /\ runs' = [runs EXCEPT ![i].pc = "done"]
  /\ AfterRun(i, exitCalls)
  /\ UNCHANGED <<env, ticks, isShuttingDown, stopCalls, shutdownRuns, warnings,
                 events, stoppedLogs>>
  /\ UNCHANGED nonProcessVars

\* Something inside RSSFeeder.run() throws (validateConfiguration, the
\* connection test of generateOutput, the write of the index or of a keyword
\* file, ...): the catch of run() logs it and calls process.exit(1).  With
\* the stub, run() then resolves and its caller goes on.
RunFails(i) ==
  /\ alive
  /\ runs[i].pc = "running"
  /\ runs' = [runs EXCEPT ![i].pc = "failed"]
  /\ IF env.exitStubbed
       THEN AfterRun(i, ProcessExit(exitCalls, 1, "RSSFeeder.run"))
       ELSE /\ exitCalls' = ProcessExit(exitCalls, 1, "RSSFeeder.run")
            /\ alive' = FALSE
            /\ UNCHANGED <<dpc, schedVars>>
  /\ UNCHANGED <<env, ticks, isShuttingDown, stopCalls, shutdownRuns, warnings,
                 events, stoppedLogs>>
  /\ UNCHANGED nonProcessVars

\* the guard of Daemon.stop() with the flag never read
ShutdownInProgressNever == FALSE

\* the guard of Daemon.stop(): if (this.isShuttingDown)
ShutdownInProgress == isShuttingDown

\* the guard of Scheduler.stop() passing without a task
HasTaskAlways == TRUE

\* the guard of Scheduler.stop(): if (this.task)
HasTask == task # NoTask

\* Scheduler.stop() with a task: the cron task is stopped and forgotten
SchedulerStopTask ==
  /\ liveTimers' = liveTimers \ {task}
  /\ task' = NoTask
  /\ isRunning' = FALSE
  /\ stoppedLogs' = stoppedLogs + 1

\* Scheduler.stop()
SchedulerStop ==
  /\ schedStopCalls' = schedStopCalls + 1
  /\ IF HasTask
       THEN SchedulerStopTask
       ELSE UNCHANGED <<task, isRunning, liveTimers, stoppedLogs>>
  /\ UNCHANGED <<timersCreated, schedStartCalls, schedStartThrows>>

\* Daemon.stop() exiting with status 0 whatever happened
ShutdownExitCodeZero(raised) == 0

\* the status Daemon.stop() exits with: process.exit(0) at the end of the
\* try block, process.exit(1) in the catch block
ShutdownExitCode(raised) == IF raised THEN 1 ELSE 0

\* Daemon.stop().  It has no await and runs to its end in one step.  The
\* call of scheduler.stop() may raise (task.stop() of the cron library, or
\* the unit test's throwing scheduler); the scheduler is then left as it was.
DaemonStop ==
  /\ stopCalls' = stopCalls + 1
  /\ IF ShutdownInProgress
       THEN /\ warnings' = warnings + 1
            /\ UNCHANGED <<isShuttingDown, shutdownRuns, procVars, schedVars,
                           logVars>>
       ELSE /\ isShuttingDown' = TRUE
            /\ shutdownRuns' = shutdownRuns + 1
            /\ warnings' = warnings
            /\ \E raised \in BOOLEAN :
                 /\ raised => isRunning /\ HasTask
                 /\ IF ~isRunning
                      THEN UNCHANGED <<schedVars, logVars>>
                      ELSE IF raised
                        THEN /\ schedStopCalls' = schedStopCalls + 1
                             /\ UNCHANGED <<task, isRunning, liveTimers,
                                            timersCreated, schedStartCalls,
                                            schedStartThrows, stoppedLogs>>
                        ELSE SchedulerStop
                 /\ exitCalls' =
                      ProcessExit(exitCalls, ShutdownExitCode(raised), "Daemon.stop")
            /\ alive' = env.exitStubbed

\* the handler of unhandledRejection only logging, the others as they are
ShutdownEventRejectionLogged(kind) ==
  /\ alive
  /\ Len(events) < MaxEvents
  /\ events' = Append(events, kind)
  /\ IF kind = "unhandledRejection"
       THEN UNCHANGED <<stopCalls, isShuttingDown, shutdownRuns, warnings,
                        procVars, schedVars, logVars>>
       ELSE DaemonStop
  /\ UNCHANGED <<env, dpc, runVars>>
  /\ UNCHANGED nonProcessVars

\* An event with a registered handler (a signal, an uncaught exception, an
\* unhandled rejection): the handler logs and calls Daemon.stop().
ShutdownEvent(kind) ==
  /\ alive
  /\ Len(events) < MaxEvents
  /\ events' = Append(events, kind)
  /\ DaemonStop
  /\ UNCHANGED <<env, dpc, runVars>>
  /\ UNCHANGED nonProcessVars

NextDaemon ==
  \/ DaemonStart
  \/ Tick
  \/ \E i \in DOMAIN runs : RunReturns(i)
  \/ \E i \in DOMAIN runs : RunFails(i)
  \/ \E kind \in EventKinds : ShutdownEvent(kind)

SpecDaemon == InitDaemon /\ [][NextDaemon]_vars

SpecHarness == InitHarness /\ [][NextDaemon]_vars

(***************************************************************************)
(* SpecScheduler: a Scheduler object driven directly, as the scheduler     *)
(* unit tests drive it: start() and stop() are called in any order and any *)
(* number of times, and the cron tasks it started tick.  Daemon.start() is *)
(* never called.                                                           *)
(***************************************************************************)
InitScheduler ==
  /\ ListIdle
  /\ ScriptIdle
  /\ FeederIdle
  /\ RetryIdle
  /\ AggIdle
  /\ \E e \in Envs :
       /\ e.exitStubbed /\ e.scheduleEnabled /\ e.configValid /\ ~e.runOnStart
       /\ ProcessConstructed(e)

\* a call of Scheduler.start()
SchedulerStartCall ==
  /\ alive
  /\ schedStartCalls < MaxStarts
  /\ IF IsValidCronExpression THEN SchedulerStartOk ELSE SchedulerStartThrows
  /\ UNCHANGED <<envVars, procVars, daemonVars, logVars, runVars>>
  /\ UNCHANGED nonProcessVars

\* a call of Scheduler.stop()
SchedulerStopCall ==
  /\ alive
  /\ schedStopCalls < MaxStops
  /\ SchedulerStop
  /\ UNCHANGED <<envVars, procVars, daemonVars, runVars>>
  /\ UNCHANGED nonProcessVars

NextScheduler ==
  \/ SchedulerStartCall
  \/ SchedulerStopCall
  \/ Tick
  \/ \E i \in DOMAIN runs : RunReturns(i)
  \/ \E i \in DOMAIN runs : RunFails(i)

SpecScheduler == InitScheduler /\ [][NextScheduler]_vars

(***************************************************************************)
(* SpecAgg: one call of FeedFetcher.getAllArticles(true).  The fetch tasks *)
(* of fetchMultipleFeeds all start in the call's first step and then run   *)
(* interleaved, each one a Utils.retry around fetchFeed; when the last has *)
(* settled, the rest of getAllArticles runs in one step.                   *)
(* Time is counted in hours; a local day is ONE_DAY hours.                 *)
(***************************************************************************)
\* feed.category of the i-th enabled feed of config/feeds.json
Categories == <<"tech/startup", "cryptography/applications", "security/news">>

\* getRssFeedsWithTags(): the first n enabled feeds; the url stands for the
\* feed, the name and the parentTag are those configured for it
FeedsConfig(n) ==
  [i \in 1 .. n |->
     [url |-> i, parentTag |-> Categories[((i - 1) % Len(Categories)) + 1],
      name |-> i]]

\* the times of day getAllArticles is called at: 01:00, 12:00, 23:00 of day 2
Nows == {49, 60, 71}

\* an item as rss-parser yields it; src records the url it was fetched from
RawItem(title, link, pubDate, src) ==
  [title |-> title, link |-> link, description |-> "", pubDate |-> pubDate,
   src |-> src]

\* item.pubDate of an item published age hours before now
PubDate(now, age) == [kind |-> "date", t |-> now - age]
\* an item without pubDate
NoPubDate == [kind |-> "missing", t |-> 0]
\* an item whose pubDate is a text Date cannot parse ("invalid-date")
UnparsablePubDate == [kind |-> "invalid", t |-> 0]

\* the time value of an Invalid Date (NaN); valid times are not negative
InvalidDate == -1

\* a >= b on two Dates: false when either is an Invalid Date
DateGeq(a, b) == a # InvalidDate /\ b # InvalidDate /\ a >= b

\* the item lists a feed may hold when it is fetched at time now from url
Payloads(now, url) ==
  { <<>>,
    <<RawItem("t1", "l1", PubDate(now, 1), url)>>,
    <<RawItem("t1", "l1", PubDate(now, 1), url),
      RawItem("t2", "l2", PubDate(now, 25), url)>>,
    <<RawItem("t2", "l2", PubDate(now, 24), url),
      RawItem("t1", "l2", NoPubDate, url)>>,
    <<RawItem("t2", "l1", UnparsablePubDate, url)>> }

\* normalizeItem: item.pubDate ? new Date(item.pubDate) : new Date()
NormalizedPubDate(pubDate, now) ==
  CASE pubDate.kind = "missing" -> now
    [] pubDate.kind = "invalid" -> InvalidDate
    [] OTHER -> pubDate.t

\* FeedFetcher.normalizeItem, the fields the aggregation reads: a missing
\* pubDate becomes the current time, an unparsable one an Invalid Date
NormalizeItem(item, now) ==
  [title |-> item.title, link |-> item.link, description |-> item.description,
   pubDate |-> NormalizedPubDate(item.pubDate, now),
   src |-> item.src]

\* what a settled task holds: a feed, null (the catch of the map callback),
\* or undefined (Utils.retry fell out of its loop)
FeedValue(url, items) == [kind |-> "feed", title |-> url, link |-> url, items |-> items]
NullValue == [kind |-> "null", title |-> 0, link |-> 0, items |-> <<>>]
UndefinedValue == [kind |-> "undefined", title |-> 0, link |-> 0, items |-> <<>>]
PendingValue == [kind |-> "pending", title |-> 0, link |-> 0, items |-> <<>>]

\* FeedFetcher.fetchFeed resolving at time now with the items raw
FetchedFeed(url, raw, now) ==
  FeedValue(url, [k \in 1 .. Len(raw) |-> NormalizeItem(raw[k], now)])

\* the head of the loop of Utils.retry in the task of one feed
TaskLoopHead(t, att) ==
  IF LoopCondition("Utils", att, aMaxRetries)
    THEN [t EXCEPT !.pc = "attempting", !.attempt = att, !.calls = @ + 1]
    ELSE [t EXCEPT !.pc = "settled", !.attempt = att, !.value = UndefinedValue]

\* the task of one feed before its first step
NewTask ==
  [pc |-> "new", attempt |-> 0, calls |-> 0, exhausted |-> FALSE,
   value |-> PendingValue]

InitAgg ==
  /\ ListIdle
  /\ ScriptIdle
  /\ FeederIdle
  /\ RetryIdle
  /\ ProcessConstructed(DefaultEnv)
  /\ aNow \in Nows
  /\ aMaxRetries \in -1 .. MaxRetriesAgg
  /\ feedsWithTags \in {FeedsConfig(n) : n \in 0 .. NumSources}
  /\ apc = "idle"
  /\ feedPromises = <<>>
  /\ failedCount = 0
  /\ allArticles = <<>>

\* successfulFeeds when one failed fetch fails the whole batch (Promise.all)
SuccessfulFeedsAllOrNothing(results) ==
  IF \E k \in DOMAIN results : results[k].kind = "null"
    THEN <<>>
    ELSE results

\* fetchMultipleFeeds: results.filter(fulfilled && value !== null).map(value)
SuccessfulFeeds(results) ==
  SelectSeq(results, LAMBDA v : v.kind # "null")

\* getAllArticles: feed.items.map(item => ({...item, feedTitle, feedLink,
\* feedParentTag: feedConfig.parentTag, feedName: feedConfig.name}))
ArticlesWithSource(feed, feedConfig) ==
  [k \in 1 .. Len(feed.items) |->
     [title |-> feed.items[k].title, link |-> feed.items[k].link,
      description |-> feed.items[k].description,
      pubDate |-> feed.items[k].pubDate, src |-> feed.items[k].src,
      feedTitle |-> feed.title, feedLink |-> feed.link,
      feedParentTag |-> feedConfig.parentTag, feedName |-> feedConfig.name]]

RECURSIVE CollectArticles(_, _, _)
\* getAllArticles: the loop over feeds, from index i on; feeds[i] is paired
\* with feedsWithTags[i]
CollectArticles(feeds, config, i) ==
  IF i > Len(feeds)
    THEN <<>>
    ELSE (IF feeds[i].kind = "feed"
            THEN ArticlesWithSource(feeds[i], config[i])
            ELSE <<>>)
         \o CollectArticles(feeds, config, i + 1)

\* midnight of the local day of time t
StartOfDay(t) == (t \div ONE_DAY) * ONE_DAY

\* FeedFetcher.filterTodayArticles at time now
FilterTodayArticles(articles, now) ==
  SelectSeq(articles, LAMBDA a : DateGeq(a.pubDate, StartOfDay(now - ONE_DAY)))

\* the key of removeDuplicates: `${article.title}_${article.link}`
DedupKey(article) == article.title \o "_" \o article.link

RECURSIVE RemoveDuplicatesKeepLast(_, _)
\* removeDuplicates keeping, for each key, the record seen last
RemoveDuplicatesKeepLast(articles, seen) ==
  IF articles = <<>>
    THEN <<>>
    ELSE IF \E k \in 2 .. Len(articles) :
              DedupKey(articles[k]) = DedupKey(Head(articles))
      THEN RemoveDuplicatesKeepLast(Tail(articles), seen)
      ELSE <<Head(articles)>> \o RemoveDuplicatesKeepLast(Tail(articles), seen)

RECURSIVE RemoveDuplicatesForgetting(_, _)
\* removeDuplicates forgetting a key when it drops a record with it
RemoveDuplicatesForgetting(articles, seen) ==
  IF articles = <<>>
    THEN <<>>
    ELSE IF DedupKey(Head(articles)) \in seen
      THEN RemoveDuplicatesForgetting(Tail(articles),
                                      seen \ {DedupKey(Head(articles))})
      ELSE <<Head(articles)>>
           \o RemoveDuplicatesForgetting(Tail(articles),
                                         seen \cup {DedupKey(Head(articles))})

RECURSIVE RemoveDuplicatesFrom(_, _)
\* FeedFetcher.removeDuplicates, with the keys seen so far
RemoveDuplicatesFrom(articles, seen) ==
  IF articles = <<>>
    THEN <<>>
    ELSE IF DedupKey(Head(articles)) \in seen
      THEN RemoveDuplicatesFrom(Tail(articles), seen)
      ELSE <<Head(articles)>>
           \o RemoveDuplicatesFrom(Tail(articles),
                                   seen \cup {DedupKey(Head(articles))})

\* removeDuplicates dropping nothing
RemoveDuplicatesNone(articles) == articles

\* FeedFetcher.removeDuplicates
RemoveDuplicates(articles) == RemoveDuplicatesFrom(articles, {})

\* getAllArticles after `await this.fetchMultipleFeeds(feedUrls)`
GetAllArticlesResult(feeds, config, now) ==
  RemoveDuplicates(FilterTodayArticles(CollectArticles(feeds, config, 1), now))

\* getAllArticles starting the task of the first feed only
GetAllArticlesFirstTaskOnly ==
  /\ apc = "idle"
  /\ IF Len(feedsWithTags) = 0
       THEN /\ apc' = "done"
            /\ allArticles' = GetAllArticlesResult(<<>>, feedsWithTags, aNow)
            /\ UNCHANGED <<feedPromises, failedCount>>
       ELSE /\ apc' = "fetching"
            /\ feedPromises' = [i \in 1 .. Len(feedsWithTags) |->
                                  IF i = 1 THEN TaskLoopHead(NewTask, 0) ELSE NewTask]
            /\ UNCHANGED <<allArticles, failedCount>>
  /\ UNCHANGED <<aNow, aMaxRetries, feedsWithTags>>
  /\ UNCHANGED nonAggVars

\* getAllArticles is called: with no feed configured fetchMultipleFeeds
\* returns [] at once; otherwise every task runs up to its first await
GetAllArticles ==
  /\ apc = "idle"
  /\ IF Len(feedsWithTags) = 0
       THEN /\ apc' = "done"
            /\ allArticles' = GetAllArticlesResult(<<>>, feedsWithTags, aNow)
            /\ UNCHANGED <<feedPromises, failedCount>>
       ELSE /\ apc' = "fetching"
            /\ feedPromises' = [i \in 1 .. Len(feedsWithTags) |-> TaskLoopHead(NewTask, 0)]
            /\ UNCHANGED <<allArticles, failedCount>>
  /\ UNCHANGED <<aNow, aMaxRetries, feedsWithTags>>
  /\ UNCHANGED nonAggVars

\* fetchFeed of feed i resolves: Utils.retry returns the feed
FetchResolves(i) ==
  /\ apc = "fetching"
  /\ feedPromises[i].pc = "attempting"
  /\ \E raw \in Payloads(aNow, feedsWithTags[i].url) :
       feedPromises' = [feedPromises EXCEPT
                          ![i].pc = "settled",
                          ![i].value = FetchedFeed(feedsWithTags[i].url, raw, aNow)]
  /\ UNCHANGED <<aNow, aMaxRetries, feedsWithTags, apc, failedCount, allArticles>>
  /\ UNCHANGED nonAggVars

\* fetchFeed of feed i rejects: Utils.retry sleeps, or on the final attempt
\* throws, and the catch of the map callback returns null
FetchRejects(i) ==
  /\ apc = "fetching"
  /\ feedPromises[i].pc = "attempting"
  /\ feedPromises' =
       [feedPromises EXCEPT ![i] =
          IF IsFinalAttempt("Utils", feedPromises[i].attempt, aMaxRetries)
            THEN [@ EXCEPT !.pc = "settled", !.exhausted = TRUE, !.value = NullValue]
            ELSE [@ EXCEPT !.pc = "sleeping"]]
  /\ UNCHANGED <<aNow, aMaxRetries, feedsWithTags, apc, failedCount, allArticles>>
  /\ UNCHANGED nonAggVars

\* the backoff sleep of the task of feed i ends: next attempt
FetchSleepDone(i) ==
  /\ apc = "fetching"
  /\ feedPromises[i].pc = "sleeping"
  /\ feedPromises' = [feedPromises EXCEPT
                        ![i] = TaskLoopHead(@, feedPromises[i].attempt + 1)]
  /\ UNCHANGED <<aNow, aMaxRetries, feedsWithTags, apc, failedCount, allArticles>>
  /\ UNCHANGED nonAggVars

\* Promise.allSettled resolves: the rest of fetchMultipleFeeds and of
\* getAllArticles
AllSettled ==
  /\ apc = "fetching"
  /\ \A i \in DOMAIN feedPromises : feedPromises[i].pc = "settled"
  /\ LET results == [i \in DOMAIN feedPromises |-> feedPromises[i].value]
         successfulFeeds == SuccessfulFeeds(results)
     IN  /\ failedCount' = Len(results) - Len(successfulFeeds)
         /\ allArticles' = GetAllArticlesResult(successfulFeeds, feedsWithTags, aNow)
  /\ apc' = "done"
  /\ UNCHANGED <<aNow, aMaxRetries, feedsWithTags, feedPromises>>
  /\ UNCHANGED nonAggVars

NextAgg ==
  \/ GetAllArticles
  \/ \E i \in DOMAIN feedPromises : FetchResolves(i)
  \/ \E i \in DOMAIN feedPromises : FetchRejects(i)
  \/ \E i \in DOMAIN feedPromises : FetchSleepDone(i)
  \/ AllSettled

SpecAgg == InitAgg /\ [][NextAgg]_vars

(***************************************************************************)
(* The grouping passes of LLMProcessor.                                    *)
(***************************************************************************)
\* DEFAULTS.PARENT_TAG, the label of a record without one ("Default to tech")
DEFAULT_PARENT_TAG == "tech"

\* the characters of the texts the model uses (titles, descriptions and
\* watch words)
Chars(text) ==
  CASE text = "t1" -> <<"t", "1">>
    [] text = "t2" -> <<"t", "2">>
    [] text = "T2" -> <<"T", "2">>
    [] text = "t" -> <<"t">>
    [] text = "1 t" -> <<"1", " ", "t">>
    [] text = "a" -> <<"a">>
    [] text = "a_b" -> <<"a", "_", "b">>
    [] OTHER -> <<>>

\* String.prototype.toLowerCase on the characters of a text
ToLowerCase(chars) ==
  [k \in 1 .. Len(chars) |-> IF chars[k] = "T" THEN "t" ELSE chars[k]]

\* String.prototype.includes: needle occurs in hay as a substring
Includes(hay, needle) ==
  \E i \in 0 .. (Len(hay) - Len(needle)) :
    SubSeq(hay, i + 1, i + Len(needle)) = needle

\* filterArticlesByKeywords: title.toLowerCase() + ' ' +
\* description.toLowerCase()
ArticleContent(article) ==
  ToLowerCase(Chars(article.title)) \o <<" ">>
    \o ToLowerCase(Chars(article.description))

\* the label read without the fallback
ParentTagOfNoFallback(article) == article.feedParentTag

\* groupArticlesByParentTags: article.feedParentTag || DEFAULTS.PARENT_TAG
ParentTagOf(article) ==
  IF article.feedParentTag = "" THEN DEFAULT_PARENT_TAG ELSE article.feedParentTag

RECURSIVE KeysInOrder(_, _)
\* the keys of an object filled in the order of keys, in insertion order
KeysInOrder(keys, seen) ==
  IF keys = <<>>
    THEN <<>>
    ELSE IF Head(keys) \in seen
      THEN KeysInOrder(Tail(keys), seen)
      ELSE <<Head(keys)>> \o KeysInOrder(Tail(keys), seen \cup {Head(keys)})

RECURSIVE InsertNewestFirst(_, _)
\* one step of the stable sort: a goes behind every record not older than it
InsertNewestFirst(a, sorted) ==
  IF sorted = <<>>
    THEN <<a>>
    ELSE IF Head(sorted).pubDate >= a.pubDate
      THEN <<Head(sorted)>> \o InsertNewestFirst(a, Tail(sorted))
      ELSE <<a>> \o sorted

RECURSIVE SortNewestFirst(_)
\* grouped[tag].sort((a, b) => new Date(b.pubDate) - new Date(a.pubDate))
SortNewestFirst(list) ==
  IF list = <<>>
    THEN <<>>
    ELSE InsertNewestFirst(list[Len(list)],
                           SortNewestFirst(SubSeq(list, 1, Len(list) - 1)))

\* LLMProcessor.groupArticlesByParentTags: the groups in key order
GroupArticlesByParentTags(list) ==
  LET tags == KeysInOrder([k \in 1 .. Len(list) |-> ParentTagOf(list[k])], {})
  IN  [g \in 1 .. Len(tags) |->
         [key |-> tags[g],
          articles |-> SortNewestFirst(
                         SelectSeq(list, LAMBDA a : ParentTagOf(a) = tags[g]))]]

\* the watch words whose lowercased text occurs in the article's content
MatchingWords(article, words) ==
  SelectSeq(words,
            LAMBDA w : Includes(ArticleContent(article), ToLowerCase(Chars(w))))

\* the inner loop going on after a match: the last matching watch word
LastKeyword(article, words) ==
  IF MatchingWords(article, words) = <<>>
    THEN ""
    ELSE MatchingWords(article, words)[Len(MatchingWords(article, words))]

\* filterArticlesByKeywords: the inner loop; the first matching watch word,
\* or "" when none matches
FirstKeyword(article, words) ==
  IF MatchingWords(article, words) = <<>>
    THEN ""
    ELSE Head(MatchingWords(article, words))

\* LLMProcessor.filterArticlesByKeywords: the groups in key order
FilterArticlesByKeywords(list, words) ==
  LET matched == SelectSeq(list, LAMBDA a : FirstKeyword(a, words) # "")
      keys == KeysInOrder([k \in 1 .. Len(matched) |->
                             FirstKeyword(matched[k], words)], {})
  IN  [g \in 1 .. Len(keys) |->
         [key |-> keys[g],
          articles |-> SelectSeq(matched,
                                 LAMBDA a : FirstKeyword(a, words) = keys[g])]]

\* the text returned by a summarization request that succeeded
LlmSummary(key) == [kind |-> "llm", key |-> key, count |-> 0]
\* the text generateSummary / generateKeywordSummary return from their catch
FallbackSummary(key, n) == [kind |-> "fallback", key |-> key, count |-> n]

\* generateSummary without a fallback text: an empty summary on failure
GenerateSummaryNoFallback(group, ok) ==
  IF ok THEN LlmSummary(group.key)
        ELSE [kind |-> "empty", key |-> group.key, count |-> 0]

\* generateSummary / generateKeywordSummary: the request succeeded, or
\* Utils.retry gave up and the catch block returns the fallback text
GenerateSummary(group, ok) ==
  IF ok THEN LlmSummary(group.key)
        ELSE FallbackSummary(group.key, Len(group.articles))

\* an entry whose count is the number of articles of the whole run
ProcessedEntryCountingAll(group, summary) ==
  [key |-> group.key, articles |-> group.articles, summary |-> summary,
   count |-> Len(fArticles)]

\* processArticles / processKeywordArticles: `if (length === 0) continue`,
\* the groups the loop does not skip
NonEmptyGroups(groups) == SelectSeq(groups, LAMBDA g : g.articles # <<>>)

\* a call of generateSummary / generateKeywordSummary with the articles of
\* a group, and whether its request succeeded
SummaryCall(pass, group, ok) ==
  [pass |-> pass, key |-> group.key, n |-> Len(group.articles), ok |-> ok]

\* the entry processArticles / processKeywordArticles store for a group
ProcessedEntry(group, summary) ==
  [key |-> group.key, articles |-> group.articles, summary |-> summary,
   count |-> Len(group.articles)]

(***************************************************************************)
(* SpecList: the list functions of the pipeline, each applied to a record  *)
(* list drawn from the lists below: filterTodayArticles, removeDuplicates  *)
(* (once and twice) and groupArticlesByParentTags.                         *)
(***************************************************************************)
\* a record as getAllArticles builds it
Article(title, link, pubDate, parentTag) ==
  [title |-> title, link |-> link, description |-> "", pubDate |-> pubDate,
   src |-> 1, feedTitle |-> 1, feedLink |-> 1, feedParentTag |-> parentTag, feedName |-> 1]

\* the lists of at most MaxListLen records of the set records
ListsOf(records) == UNION {[1 .. n -> records] : n \in 0 .. MaxListLen}

\* records that differ in title and link; "a_b" with "c" and "a" with "b_c"
\* are different records
DedupRecords(now) ==
  {Article(t, l, now - 1, "tech") : t \in {"a", "a_b"}, l \in {"c", "b_c"}}

\* records that differ in publication date: 25, 24 and 1 hours ago, in one
\* hour (a feed's clock ahead of ours), and an Invalid Date
FilterRecords(now) ==
  {Article("a", "c", d, "tech") :
     d \in {now - 25, now - ONE_DAY, now - 1, now + 1, InvalidDate}}

\* records that differ in label (none, the fallback, another), date and title
GroupRecords(now) ==
  {Article(t, "c", d, tag) :
     t \in {"a", "a_b"}, d \in {now - 2, now - 1},
     tag \in {"", DEFAULT_PARENT_TAG, "security/news"}}

\* records that differ in title and description
WatchRecords(now) ==
  {[Article(t, "c", now - 1, "tech") EXCEPT !.description = d] :
     t \in {"t1", "t2"}, d \in {"", "t2"}}

\* the watch-word lists of the configurations explored
WatchWordLists == {<<>>, <<"t1">>, <<"t1", "t2">>, <<"T2", "t">>}

\* the watch word lists: those of a run, and a watch word of two words
ListWatchWords == WatchWordLists \cup {<<"1 t">>}

InitList ==
  /\ ScriptIdle
  /\ FeederIdle
  /\ RetryIdle
  /\ AggIdle
  /\ ProcessConstructed(DefaultEnv)
  /\ lpc = "input"
  /\ lNow \in Nows
  /\ lInput \in ListsOf(DedupRecords(lNow)) \cup ListsOf(FilterRecords(lNow))
                  \cup ListsOf(GroupRecords(lNow))
                  \cup ListsOf(WatchRecords(lNow))
  /\ lFiltered = <<>>
  /\ lDeduped = <<>>
  /\ lDedupedTwice = <<>>
  /\ lGrouped = <<>>
  /\ lWords \in IF lInput \in ListsOf(WatchRecords(lNow))
                  THEN ListWatchWords
                  ELSE {<<>>}
  /\ lWatched = <<>>

\* filterTodayArticles(lInput)
ApplyFilterTodayArticles ==
  /\ lpc = "input"
  /\ lFiltered' = FilterTodayArticles(lInput, lNow)
  /\ lpc' = "filtered"
  /\ UNCHANGED <<lNow, lInput, lDeduped, lDedupedTwice, lGrouped,
                 lWords, lWatched>>
  /\ UNCHANGED nonListVars

\* removeDuplicates(lInput)
ApplyRemoveDuplicates ==
  /\ lpc = "input"
  /\ lDeduped' = RemoveDuplicates(lInput)
  /\ lpc' = "deduped"
  /\ UNCHANGED <<lNow, lInput, lFiltered, lDedupedTwice, lGrouped,
                 lWords, lWatched>>
  /\ UNCHANGED nonListVars

\* removeDuplicates applied to its own result
ApplyRemoveDuplicatesAgain ==
  /\ lpc = "deduped"
  /\ lDedupedTwice' = RemoveDuplicates(lDeduped)
  /\ lpc' = "dedupedTwice"
  /\ UNCHANGED <<lNow, lInput, lFiltered, lDeduped, lGrouped,
                 lWords, lWatched>>
  /\ UNCHANGED nonListVars

\* groupArticlesByParentTags(lInput); the records it is given have passed
\* filterTodayArticles, so their dates are valid
ApplyGroupArticlesByParentTags ==
  /\ lpc = "input"
  /\ \A k \in DOMAIN lInput : lInput[k].pubDate # InvalidDate
  /\ lGrouped' = GroupArticlesByParentTags(lInput)
  /\ lpc' = "grouped"
  /\ UNCHANGED <<lNow, lInput, lFiltered, lDeduped, lDedupedTwice,
                 lWords, lWatched>>
  /\ UNCHANGED nonListVars

\* filterArticlesByKeywords(lInput, lWords)
ApplyFilterArticlesByKeywords ==
  /\ lpc = "input"
  /\ lWatched' = FilterArticlesByKeywords(lInput, lWords)
  /\ lpc' = "watched"
  /\ UNCHANGED <<lNow, lInput, lFiltered, lDeduped, lDedupedTwice, lGrouped,
                 lWords>>
  /\ UNCHANGED nonListVars

NextList ==
  \/ ApplyFilterTodayArticles
  \/ ApplyRemoveDuplicates
  \/ ApplyRemoveDuplicatesAgain
  \/ ApplyGroupArticlesByParentTags
  \/ ApplyFilterArticlesByKeywords

SpecList == InitList /\ [][NextList]_vars

(***************************************************************************)
(* SpecRun: one call of RSSFeeder.run() in a real process, step by step:   *)
(* validation, aggregation, the two summarization passes, the connection   *)
(* test, the label documents (written concurrently), the index document    *)
(* and the watch documents (written one after the other).  A request or a  *)
(* write that "fails" has failed on every attempt of Utils.retry.          *)
(***************************************************************************)
InitRun ==
  /\ ListIdle
  /\ ScriptIdle
  /\ RetryIdle
  /\ AggIdle
  /\ \E valid \in BOOLEAN :
       ProcessConstructed([DefaultEnv EXCEPT !.configValid = valid])
  /\ fpc = "call"
  /\ fNow \in Nows
  /\ fFeeds \in {FeedsConfig(n) : n \in 1 .. NumRunSources}
  /\ watchWords \in WatchWordLists
  /\ fResults = <<>>
  /\ fArticles = <<>>
  /\ processedData = <<>>
  /\ keywordData = <<>>
  /\ fIdx = 0
  /\ summaryCalls = <<>>
  /\ connectionTests = 0
  /\ writes = <<>>
  /\ runError = [kind |-> "none"]

\* the values the fetch task of feed i may settle with: null after the
\* retries are exhausted, or the feed as fetched
TaskValues(feeds, i, now) ==
  {NullValue} \cup {FetchedFeed(feeds[i].url, raw, now) : raw \in Payloads(now, feeds[i].url)}

\* the results of Promise.allSettled over the fetch tasks
FetchOutcomes(feeds, now) ==
  {r \in [DOMAIN feeds -> UNION {TaskValues(feeds, i, now) : i \in DOMAIN feeds}] :
     \A i \in DOMAIN feeds : r[i] \in TaskValues(feeds, i, now)}

\* the catch block of run(): log, process.exit(1)
RunCatch(error) ==
  /\ runError' = error
  /\ fpc' = "failed"
  /\ exitCalls' = ProcessExit(exitCalls, 1, "RSSFeeder.run")
  /\ alive' = FALSE

\* a document write that has been started and has not settled
PendingWrite(channel, key) == [channel |-> channel, key |-> key, state |-> "pending"]

\* run() up to `await feedFetcher.getAllArticles(true)`
RunStart ==
  /\ alive
  /\ fpc = "call"
  /\ IF ConfigurationValid
       THEN /\ fpc' = "fetching"
            /\ UNCHANGED <<procVars, runError>>
       ELSE RunCatch([kind |-> "config"])
  /\ UNCHANGED <<fNow, fFeeds, watchWords, fResults, fArticles, processedData,
                 keywordData, fIdx, summaryCalls, connectionTests, writes>>
  /\ UNCHANGED nonFeederVars

\* run() from the return of getAllArticles to its next await: the early
\* return without articles, or processArticles up to its first request
AfterFetch(results) ==
  /\ fResults' = results
  /\ fArticles' = GetAllArticlesResult(SuccessfulFeeds(results), fFeeds, fNow)
  /\ IF fArticles' = <<>>
       THEN fpc' = "returned" /\ fIdx' = fIdx
       ELSE fpc' = "labelSummaries" /\ fIdx' = 1
  /\ UNCHANGED <<procVars, runError>>

\* getAllArticles raising when no feed could be fetched
RunFetchedRaising ==
  /\ alive
  /\ fpc = "fetching"
  /\ \E results \in FetchOutcomes(fFeeds, fNow) :
       IF \A i \in DOMAIN results : results[i] = NullValue
         THEN /\ RunCatch([kind |-> "fetch"])
              /\ fResults' = results
              /\ UNCHANGED <<fArticles, fIdx>>
         ELSE AfterFetch(results)
  /\ UNCHANGED <<fNow, fFeeds, watchWords, processedData, keywordData,
                 summaryCalls, connectionTests, writes>>
  /\ UNCHANGED nonFeederVars

\* getAllArticles returns: every fetch task has settled
RunFetched ==
  /\ alive
  /\ fpc = "fetching"
  /\ \E results \in FetchOutcomes(fFeeds, fNow) : AfterFetch(results)
  /\ UNCHANGED <<fNow, fFeeds, watchWords, processedData, keywordData,
                 summaryCalls, connectionTests, writes>>
  /\ UNCHANGED nonFeederVars

\* processArticles: generateSummary of the current group settles
LabelSummarySettles ==
  /\ alive
  /\ fpc = "labelSummaries"
  /\ LET groups == NonEmptyGroups(GroupArticlesByParentTags(fArticles))
         group == groups[fIdx]
     IN  \E ok \in BOOLEAN :
           /\ summaryCalls' = Append(summaryCalls, SummaryCall("label", group, ok))
           /\ processedData' =
                Append(processedData, ProcessedEntry(group, GenerateSummary(group, ok)))
           /\ IF fIdx < Len(groups)
                THEN fpc' = fpc /\ fIdx' = fIdx + 1
                ELSE IF NonEmptyGroups(FilterArticlesByKeywords(fArticles, watchWords)) = <<>>
                  THEN fpc' = "connecting" /\ fIdx' = 0
                  ELSE fpc' = "watchSummaries" /\ fIdx' = 1
  /\ UNCHANGED <<fNow, fFeeds, watchWords, fResults, fArticles, keywordData,
                 connectionTests, writes, runError, procVars>>
  /\ UNCHANGED nonFeederVars

\* processKeywordArticles with a group for every watch word, matched or
\* not, and no group skipped
WatchSummarySettlesEveryWord ==
  /\ alive
  /\ fpc = "watchSummaries"
  /\ LET groups == [k \in 1 .. Len(watchWords) |->
                      [key |-> watchWords[k],
                       articles |->
                         SelectSeq(fArticles,
                                   LAMBDA a : FirstKeyword(a, watchWords) = watchWords[k])]]
         group == groups[fIdx]
     IN  \E ok \in BOOLEAN :
           /\ summaryCalls' = Append(summaryCalls, SummaryCall("watch", group, ok))
           /\ keywordData' =
                Append(keywordData, ProcessedEntry(group, GenerateSummary(group, ok)))
           /\ IF fIdx < Len(groups)
                THEN fpc' = fpc /\ fIdx' = fIdx + 1
                ELSE fpc' = "connecting" /\ fIdx' = 0
  /\ UNCHANGED <<fNow, fFeeds, watchWords, fResults, fArticles, processedData,
                 connectionTests, writes, runError, procVars>>
  /\ UNCHANGED nonFeederVars

\* processKeywordArticles: generateKeywordSummary of the current group settles
WatchSummarySettles ==
  /\ alive
  /\ fpc = "watchSummaries"
  /\ LET groups == NonEmptyGroups(FilterArticlesByKeywords(fArticles, watchWords))
         group == groups[fIdx]
     IN  \E ok \in BOOLEAN :
           /\ summaryCalls' = Append(summaryCalls, SummaryCall("watch", group, ok))
           /\ keywordData' =
                Append(keywordData, ProcessedEntry(group, GenerateSummary(group, ok)))
           /\ IF fIdx < Len(groups)
                THEN fpc' = fpc /\ fIdx' = fIdx + 1
                ELSE fpc' = "connecting" /\ fIdx' = 0
  /\ UNCHANGED <<fNow, fFeeds, watchWords, fResults, fArticles, processedData,
                 connectionTests, writes, runError, procVars>>
  /\ UNCHANGED nonFeederVars

\* createTagFile: `if (!articles || articles.length === 0) return`, the
\* entries whose document is written
WrittenEntries(data) == SelectSeq(data, LAMBDA e : e.articles # <<>>)

\* generateOutput: testConnection settles; connected, createAllFiles starts
\* createTagFile for every entry at once
ConnectionTested ==
  /\ alive
  /\ fpc = "connecting"
  /\ connectionTests' = connectionTests + 1
  /\ \E connected \in BOOLEAN :
       IF connected
         THEN /\ writes' = writes \o
                   [k \in 1 .. Len(WrittenEntries(processedData)) |->
                      PendingWrite("label", WrittenEntries(processedData)[k].key)]
              /\ fpc' = "tagFiles"
              /\ UNCHANGED <<procVars, runError>>
         ELSE /\ RunCatch([kind |-> "connection"])
              /\ writes' = writes
  /\ UNCHANGED <<fNow, fFeeds, watchWords, fResults, fArticles, processedData,
                 keywordData, fIdx, summaryCalls>>
  /\ UNCHANGED nonFeederVars

\* the state of a write that has settled
Settled(ok) == IF ok THEN "ok" ELSE "failed"

\* createAllFiles: createTagFile of one entry settles; a rejection stays in
\* its promise (Promise.allSettled)
TagFileSettles(w) ==
  /\ alive
  /\ fpc = "tagFiles"
  /\ writes[w].state = "pending"
  /\ \E ok \in BOOLEAN : writes' = [writes EXCEPT ![w].state = Settled(ok)]
  /\ UNCHANGED <<fpc, fNow, fFeeds, watchWords, fResults, fArticles,
                 processedData, keywordData, fIdx, summaryCalls,
                 connectionTests, runError, procVars>>
  /\ UNCHANGED nonFeederVars

\* Promise.allSettled resolves, createAllFiles returns and createIndexFile
\* starts its write
AllFilesSettled ==
  /\ alive
  /\ fpc = "tagFiles"
  /\ \A w \in DOMAIN writes : writes[w].state # "pending"
  /\ writes' = Append(writes, PendingWrite("index", "index"))
  /\ fpc' = "indexFile"
  /\ UNCHANGED <<fNow, fFeeds, watchWords, fResults, fArticles, processedData,
                 keywordData, fIdx, summaryCalls, connectionTests, runError,
                 procVars>>
  /\ UNCHANGED nonFeederVars

\* createIndexFile: the write settles; run() goes on to the keyword output,
\* or to its end when there is no keyword data
IndexFileSettles ==
  /\ alive
  /\ fpc = "indexFile"
  /\ \E ok \in BOOLEAN :
       /\ writes' = [writes EXCEPT ![Len(writes)].state = Settled(ok)]
       /\ IF ok
            THEN /\ fpc' = IF keywordData # <<>> THEN "kwConnecting" ELSE "done"
                 /\ UNCHANGED <<procVars, runError>>
            ELSE RunCatch([kind |-> "write", channel |-> "index"])
  /\ UNCHANGED <<fNow, fFeeds, watchWords, fResults, fArticles, processedData,
                 keywordData, fIdx, summaryCalls, connectionTests>>
  /\ UNCHANGED nonFeederVars

\* generateKeywordOutput: testConnection settles; connected, the loop starts
\* the write of the first keyword
KeywordConnectionTested ==
  /\ alive
  /\ fpc = "kwConnecting"
  /\ connectionTests' = connectionTests + 1
  /\ \E connected \in BOOLEAN :
       IF connected
         THEN /\ writes' = Append(writes, PendingWrite("watch", keywordData[1].key))
              /\ fIdx' = 1
              /\ fpc' = "keywordFiles"
              /\ UNCHANGED <<procVars, runError>>
         ELSE /\ RunCatch([kind |-> "connection"])
              /\ UNCHANGED <<writes, fIdx>>
  /\ UNCHANGED <<fNow, fFeeds, watchWords, fResults, fArticles, processedData,
                 keywordData, summaryCalls>>
  /\ UNCHANGED nonFeederVars

\* generateKeywordOutput: createKeywordSummaryFile of the current keyword
\* settles; it rethrows a failed write, which ends the loop and run()
KeywordFileSettles ==
  /\ alive
  /\ fpc = "keywordFiles"
  /\ \E ok \in BOOLEAN :
       IF ok
         THEN /\ IF fIdx < Len(keywordData)
                   THEN /\ writes' =
                             Append([writes EXCEPT ![Len(writes)].state = "ok"],
                                    PendingWrite("watch", keywordData[fIdx + 1].key))
                        /\ fIdx' = fIdx + 1
                        /\ fpc' = fpc
                   ELSE /\ writes' = [writes EXCEPT ![Len(writes)].state = "ok"]
                        /\ fIdx' = fIdx
                        /\ fpc' = "done"
              /\ UNCHANGED <<procVars, runError>>
         ELSE /\ writes' = [writes EXCEPT ![Len(writes)].state = "failed"]
              /\ fIdx' = fIdx
              /\ RunCatch([kind |-> "write", channel |-> "watch"])
  /\ UNCHANGED <<fNow, fFeeds, watchWords, fResults, fArticles, processedData,
                 keywordData, summaryCalls, connectionTests>>
  /\ UNCHANGED nonFeederVars

NextRun ==
  \/ RunStart
  \/ RunFetched
  \/ LabelSummarySettles
  \/ WatchSummarySettles
  \/ ConnectionTested
  \/ \E w \in DOMAIN writes : TagFileSettles(w)
  \/ AllFilesSettled
  \/ IndexFileSettles
  \/ KeywordConnectionTested
  \/ KeywordFileSettles

SpecRun == InitRun /\ [][NextRun]_vars

(***************************************************************************)
(* Properties of the retry helpers (checked under SpecRetry).              *)
(***************************************************************************)
\* the helper has given up
GaveUp == rpc = "thrown"
\* number of failed attempts so far
Failures == Len(rFailKinds)

\* C4: retry ceiling. For every maxRetries N >= 0 the operation is invoked
\* at most N+1 times; the helper raises its failure exactly when the
\* (N+1)-th invocation has failed, and by then it has invoked the operation
\* exactly N+1 times, never fewer.
C4_RetryCeiling ==
  rMaxRetries >= 0 =>
    /\ rCalls <= rMaxRetries + 1
    /\ GaveUp <=> Failures = rMaxRetries + 1
    /\ GaveUp => rCalls = rMaxRetries + 1

\* C4 witness: maxRetries = 3, every attempt failed, 4 invocations, then raised
C4_Witness ==
  /\ rMaxRetries = 3
  /\ GaveUp
  /\ rCalls = 4
  /\ Failures = 4

\* the helper runs with exponential backoff (always, except RetryManager with
\* useExponentialBackoff switched off)
Exponential == rImpl = "RetryManager" => rUseExp

\* C5: backoff geometry. With exponential backoff the delay slept after the
\* k-th failed attempt is baseDelay * 2^(k-1); one delay is slept per failed
\* attempt except the final one, after which none is slept.
C5_BackoffGeometry ==
  Exponential =>
    /\ \A k \in 1 .. Len(rDelays) : rDelays[k] = rBaseDelay * Pow2(k - 1)
    /\ Len(rDelays) = IF GaveUp THEN Failures - 1 ELSE Failures
    /\ rMaxRetries >= 0 => Len(rDelays) <= rMaxRetries

\* C5 witness: baseDelay = 1000 and four failures give 1000, 2000, 4000
C5_Witness ==
  /\ rBaseDelay = 1000
  /\ GaveUp
  /\ Failures = 4
  /\ rDelays = <<1000, 2000, 4000>>

\* C6: whenever a retry helper gives up, the error that leaves it is a
\* wrapping error carrying the last underlying error and the operation's
\* context, never the operation's own raw error.
C6_OnlyRetryExhaustedCrosses ==
  GaveUp =>
    /\ rOut.kind = "wrapped"
    /\ rOut.originalError = rLastErr
    /\ rOut.context = OpContext

\* C7: with a timeout set (RetryManager), an attempt overtaken by the timer is
\* a failed attempt like any other: it counts toward the maxRetries+1
\* ceiling, is followed by the same backoff delay, and after the delay the
\* operation is invoked again.
C7_TimeoutIsAFailedAttempt ==
  (rImpl = "RetryManager" /\ rTimeout /\ rMaxRetries >= 0) =>
    /\ rCalls <= rMaxRetries + 1
    /\ GaveUp <=> Failures = rMaxRetries + 1
    /\ Len(rDelays) = IF GaveUp THEN Failures - 1 ELSE Failures
    /\ \A k \in 1 .. Len(rDelays) :
         rDelays[k] = IF rUseExp THEN rBaseDelay * Pow2(k - 1) ELSE rBaseDelay
    /\ rpc = "attempting" => rCalls = Failures + 1
    /\ rpc = "sleeping" => rCalls = Failures

\* C7 witness: the first attempt timed out, was followed by the backoff delay
\* and a second invocation, and the run ended by giving up on a timeout
C7_Witness ==
  /\ rImpl = "RetryManager"
  /\ rTimeout
  /\ rMaxRetries = 2
  /\ rFailKinds = <<"timeout", "error", "timeout">>
  /\ rCalls = 3
  /\ rDelays = <<rBaseDelay, 2 * rBaseDelay>>
  /\ GaveUp

(***************************************************************************)
(* Properties of the daemon process (checked under SpecDaemon; C8 under    *)
(* SpecHarness, where a second Daemon.stop() can follow the first).        *)
(***************************************************************************)
\* run i is a scheduled run whose internal failure happens in this step
ScheduledRunFailsNow(i) ==
  /\ runs[i].origin = "tick"
  /\ runs[i].pc = "running"
  /\ runs'[i].pc = "failed"

\* C1: a scheduled Pipeline Run that fails internally is contained: the step
\* in which it fails calls no process.exit, leaves the process alive and
\* leaves the Scheduler as it was (Running, its timer registered), so the
\* next matching tick can still invoke Pipeline Run.
C1_ScheduledFailureContained ==
  [][\A i \in DOMAIN runs :
       ScheduledRunFailsNow(i) =>
         /\ alive'
         /\ exitCalls' = exitCalls
         /\ isRunning' = isRunning
         /\ liveTimers' = liveTimers]_vars

\* C8: signal idempotence. However many times Daemon.stop() is called, the
\* shutdown sequence is entered exactly once (by the first call): at most one
\* Scheduler.stop() and exactly one process.exit come from Daemon.stop(), and
\* every later call logs one 'shutdown already in progress' warning and does
\* nothing else (two calls: exactly one warning).
C8_StopIdempotent ==
  /\ shutdownRuns = (IF stopCalls = 0 THEN 0 ELSE 1)
  /\ warnings = (IF stopCalls = 0 THEN 0 ELSE stopCalls - 1)
  /\ schedStopCalls <= shutdownRuns
  /\ Cardinality({k \in DOMAIN exitCalls : exitCalls[k].by = "Daemon.stop"})
       = shutdownRuns

\* C8 witness: stop() was called twice while the scheduler was Running; one
\* shutdown sequence with its Scheduler.stop(), one warning
C8_Witness ==
  /\ stopCalls = 2
  /\ shutdownRuns = 1
  /\ schedStopCalls = 1
  /\ warnings = 1

\* C9: Scheduler.start() with a malformed cron expression always throws and
\* changes no scheduler state: the scheduler stays Stopped, no cron task is
\* created or registered, and no tick ever starts a Pipeline Run.
C9_InvalidCronLeavesStopped ==
  (~env.cronValid) =>
    /\ schedStartThrows = schedStartCalls
    /\ ~isRunning
    /\ task = NoTask
    /\ liveTimers = {}
    /\ timersCreated = 0
    /\ \A i \in DOMAIN runs : runs[i].origin # "tick"

\* C9 witness: start() was called with a malformed expression and threw
C9_Witness ==
  /\ ~env.cronValid
  /\ schedStartCalls = 1
  /\ schedStartThrows = 1
  /\ dpc = "startFailed"

\* C10: with scheduling disabled, Daemon.start() fails fast: the process
\* exits with status 1 and no work is attempted: process.exit(1) is the only
\* exit call, no Pipeline Run is started, Scheduler.start() is never called
\* and the scheduler is untouched.
C10_DisabledFailsFast ==
  (~env.scheduleEnabled /\ dpc # "new") =>
    /\ ~alive
    /\ exitCalls = <<[code |-> 1, by |-> "Daemon.start"]>>
    /\ runs = <<>>
    /\ schedStartCalls = 0
    /\ schedVars = <<NoTask, FALSE, {}, 0, 0, 0, 0>>

\* C10 witness: a real process started in daemon mode with scheduling
\* disabled (and run-on-start requested) has exited with status 1
C10_Witness ==
  /\ ~env.scheduleEnabled
  /\ env.runOnStart
  /\ dpc = "startFailed"
  /\ exitCalls = <<[code |-> 1, by |-> "Daemon.start"]>>
  /\ ~alive

(***************************************************************************)
(* Properties of the aggregation (checked under SpecAgg).                  *)
(***************************************************************************)
\* the fetch of feed i failed on every attempt: Utils.retry gave up
Exhausted(i) == feedPromises[i].exhausted
\* the fetch of feed i succeeded
Succeeded(i) == feedPromises[i].value.kind = "feed"
\* t lies in the recency window of ONE_DAY hours before now
InWindow(t, now) == now - ONE_DAY <= t /\ t < now
\* the returned list holds a record with the title and link of item
Returned(item) ==
  \E j \in DOMAIN allArticles :
    allArticles[j].title = item.title /\ allArticles[j].link = item.link

\* C2: per-source failure isolation. When getAllArticles has returned, the
\* number of failed feeds it reported is exactly the number of feeds whose
\* fetch exhausted its retries, and every item of every successfully fetched
\* feed that lies in the recency window is in the returned list (as the
\* record kept for its title and link).
C2_FailureIsolation ==
  apc = "done" =>
    /\ failedCount = Cardinality({i \in DOMAIN feedPromises : Exhausted(i)})
    /\ \A i \in DOMAIN feedPromises :
         Succeeded(i) =>
           \A k \in DOMAIN feedPromises[i].value.items :
             InWindow(feedPromises[i].value.items[k].pubDate, aNow) =>
               Returned(feedPromises[i].value.items[k])

\* C2 witness: of three feeds the second failed on every attempt (after a
\* retry), the first and the third were fetched; one failure is reported and
\* records of both fetched feeds are returned
C2_Witness ==
  /\ apc = "done"
  /\ Len(feedsWithTags) = 3
  /\ aMaxRetries = 1
  /\ Succeeded(1) /\ Exhausted(2) /\ Succeeded(3)
  /\ feedPromises[2].calls = 2
  /\ failedCount = 1
  /\ \E j \in DOMAIN allArticles : allArticles[j].src = 1
  /\ \E j \in DOMAIN allArticles : allArticles[j].src = 3

\* C3: every record getAllArticles returns carries the parentTag and the
\* name configured for the feed it was fetched from.
C3_RecordsCarryOwnSource ==
  apc = "done" =>
    \A j \in DOMAIN allArticles :
      /\ allArticles[j].feedParentTag = feedsWithTags[allArticles[j].src].parentTag
      /\ allArticles[j].feedName = feedsWithTags[allArticles[j].src].name

(***************************************************************************)
(* Daemon start-up, shutdown and the scheduler's timer.                    *)
(***************************************************************************)
\* the exit call made last
LastExit == exitCalls[Len(exitCalls)]
\* the runs Daemon.start() started, and the runs a cron tick started
StartRuns == {i \in DOMAIN runs : runs[i].origin = "start"}
TickRuns == {i \in DOMAIN runs : runs[i].origin = "tick"}

\* C11: with an invalid cron expression the daemon never becomes active and
\* no Pipeline Run is ever executed, whatever the run-on-start flag; once
\* start() has failed the process has exited with a non-zero status.
C11_InvalidCronNoWork ==
  ~env.cronValid =>
    /\ runs = <<>>
    /\ dpc # "active"
    /\ dpc = "startFailed" => ~alive /\ exitCalls # <<>> /\ LastExit.code # 0

\* C12: with runOnStart, Scheduler.start() is called only after exactly one
\* run started by start() has completed; without it start() starts no run;
\* the daemon is active only after one Scheduler.start() that did not throw.
C12_StartOrdering ==
  /\ Cardinality(StartRuns) <= 1
  /\ (env.runOnStart /\ schedStartCalls > 0) =>
       /\ Cardinality(StartRuns) = 1
       /\ \A i \in StartRuns : runs[i].pc = "done"
  /\ ~env.runOnStart => StartRuns = {}
  /\ dpc = "initialRun" => schedStartCalls = 0 /\ liveTimers = {}
  /\ dpc = "active" => schedStartCalls = 1 /\ schedStartThrows = 0

C12_Witness ==
  /\ env.runOnStart
  /\ dpc = "active"
  /\ isRunning
  /\ \E i \in StartRuns : runs[i].pc = "done"

\* the step in which Daemon.stop() is called for the first time
FirstStop == stopCalls = 0 /\ stopCalls' = 1

\* C13: the first Daemon.stop() sets isShuttingDown, calls Scheduler.stop()
\* exactly when the scheduler is running, and ends the process with status 0
\* when the scheduler was not running or was stopped, and with status 1 when
\* the stop raised (the scheduler is then still running).
C13_FirstStopSequence ==
  [][FirstStop =>
       /\ isShuttingDown'
       /\ shutdownRuns' = shutdownRuns + 1
       /\ schedStopCalls' = (IF isRunning THEN schedStopCalls + 1 ELSE schedStopCalls)
       /\ ~alive'
       /\ exitCalls' =
            Append(exitCalls, [code |-> (IF isRunning /\ isRunning' THEN 1 ELSE 0),
                               by |-> "Daemon.stop"])]_vars

C13_Witness ==
  /\ stopCalls = 1
  /\ ~alive
  /\ isRunning
  /\ schedStopCalls = 1
  /\ exitCalls = <<[code |-> 1, by |-> "Daemon.stop"]>>

\* C14: whenever the handler of SIGTERM, SIGINT, uncaughtException or
\* unhandledRejection runs, in any state of the daemon, Daemon.stop() is
\* called and the process is terminated by the exit call of the shutdown
\* sequence.
C14_EventsTriggerStop ==
  [][\A kind \in EventKinds :
       events' = Append(events, kind) =>
         /\ stopCalls' = stopCalls + 1
         /\ isShuttingDown'
         /\ ~alive'
         /\ exitCalls' # exitCalls
         /\ exitCalls'[Len(exitCalls')].by = "Daemon.stop"]_vars

C14_Witness ==
  /\ events = <<"unhandledRejection">>
  /\ dpc = "initialRun"
  /\ stopCalls = 1
  /\ ~alive

\* C15: once Scheduler.start() has succeeded (and until a stop) the scheduler
\* is running with a started cron task, and the runs started by ticks are
\* exactly one per tick.
C15_OneRunPerTick ==
  /\ (schedStartCalls > schedStartThrows /\ schedStopCalls = 0) =>
       isRunning /\ task # NoTask /\ task \in liveTimers
  /\ Cardinality(TickRuns) = ticks
  /\ \A t \in 1 .. ticks :
       Cardinality({i \in TickRuns : runs[i].calledAt = t}) = 1

C15_Witness ==
  /\ ticks = 2
  /\ Cardinality(TickRuns) = 2
  /\ isRunning

\* C16: a call of Scheduler.stop() leaves isRunning false and no task; with a
\* task it cancels that task's timer and logs 'stopped' once; without a task
\* (second stop, or never started) it changes nothing, cancels nothing and
\* logs nothing.
C16_SchedulerStopIdempotent ==
  [][schedStopCalls' = schedStopCalls + 1 =>
       /\ task' = NoTask
       /\ ~isRunning'
       /\ IF task # NoTask
            THEN /\ liveTimers' = liveTimers \ {task}
                 /\ stoppedLogs' = stoppedLogs + 1
            ELSE UNCHANGED <<task, isRunning, liveTimers, stoppedLogs>>
       /\ UNCHANGED <<timersCreated, schedStartCalls, schedStartThrows, runs>>]_vars

C16_Witness ==
  /\ schedStartCalls = 1
  /\ schedStopCalls = 2
  /\ stoppedLogs = 1
  /\ task = NoTask
  /\ ~isRunning
  /\ liveTimers = {}

(***************************************************************************)
(* Error containment inside one Pipeline Run.                              *)
(***************************************************************************)
\* run() has returned or has ended the process
RunEnded == fpc \in {"returned", "done", "failed"}
\* a write of the document of bucket key was started in the channel
Attempted(channel, key) ==
  \E w \in DOMAIN writes : writes[w].channel = channel /\ writes[w].key = key
\* some bucket's document write failed after its retries
BucketWriteFailed ==
  \E w \in DOMAIN writes :
    writes[w].channel \in {"label", "watch"} /\ writes[w].state = "failed"
\* a summarization request failed after its retries
SummaryFailed == \E c \in DOMAIN summaryCalls : ~summaryCalls[c].ok

\* C17: when a run has ended and a bucket's document write had failed (the
\* connection tests and the index write not having failed), the write of
\* every label bucket and of every watch bucket has been attempted.
C17_PersistenceIsolation ==
  (/\ RunEnded
   /\ BucketWriteFailed
   /\ runError.kind # "connection"
   /\ ~(runError.kind = "write" /\ runError.channel = "index"))
  => /\ \A k \in DOMAIN processedData : Attempted("label", processedData[k].key)
     /\ \A k \in DOMAIN keywordData : Attempted("watch", keywordData[k].key)

\* C18: a run never ends the process with an error status because of a feed
\* fetch, a summarization request or a document write that failed after its
\* retries; only configuration and fatal errors reach process.exit(1).
C18_TransientErrorsContained ==
  exitCalls # <<>> => runError.kind \notin {"fetch", "summary", "write"}

AllSourcesFailed ==
  fResults # <<>> /\ \A i \in DOMAIN fResults : fResults[i] = NullValue

\* C20: when every configured feed has failed, the aggregation returns the
\* empty list and run() returns: no exit call, no error caught, no
\* summarization request, no connection test and no document write.
C20_AllSourcesFailIsNotAnError ==
  AllSourcesFailed =>
    /\ fArticles = <<>>
    /\ fpc = "returned"
    /\ alive
    /\ exitCalls = <<>>
    /\ runError.kind = "none"
    /\ summaryCalls = <<>>
    /\ connectionTests = 0
    /\ writes = <<>>

C20_Witness ==
  /\ AllSourcesFailed
  /\ Len(fResults) = 2
  /\ fpc = "returned"

(***************************************************************************)
(* The recency window and the deduplication.                               *)
(***************************************************************************)
\* C21: the filter keeps exactly the records published in the ONE_DAY hours
\* before now (now - ONE_DAY <= publishedAt < now), in their order, at every
\* time of day.
C21_RecencyWindow ==
  lpc = "filtered" =>
    lFiltered = SelectSeq(lInput, LAMBDA a : InWindow(a.pubDate, lNow))

\* C22: every item of a fetched feed whose pubDate is missing or cannot be
\* parsed is normalized to the current time and is in the list returned by
\* the getAllArticles call that fetched it.
C22_UndatedRecordsPass ==
  apc = "done" =>
    \A i \in DOMAIN feedPromises :
      Succeeded(i) =>
        \E raw \in Payloads(aNow, feedsWithTags[i].url) :
          /\ feedPromises[i].value = FetchedFeed(feedsWithTags[i].url, raw, aNow)
          /\ \A k \in DOMAIN raw :
               raw[k].pubDate.kind \in {"missing", "invalid"} =>
                 /\ feedPromises[i].value.items[k].pubDate = aNow
                 /\ Returned(feedPromises[i].value.items[k])

\* C23: no two records of the list getAllArticles returns share the dedup
\* key title_link.
C23_NoSharedDedupKey ==
  apc = "done" =>
    \A j, k \in DOMAIN allArticles :
      j # k => DedupKey(allArticles[j]) # DedupKey(allArticles[k])

\* C23 witness: two fetched feeds both hold the item t1/l1, one record of it
\* is returned
C23_Witness ==
  /\ apc = "done"
  /\ Len(feedsWithTags) >= 2
  /\ Succeeded(1) /\ Succeeded(2)
  /\ \A i \in {1, 2} :
       \E k \in DOMAIN feedPromises[i].value.items :
         /\ feedPromises[i].value.items[k].title = "t1"
         /\ feedPromises[i].value.items[k].link = "l1"
  /\ Cardinality({j \in DOMAIN allArticles :
                    allArticles[j].title = "t1" /\ allArticles[j].link = "l1"}) = 1

\* the positions of list whose record is the first with its dedup key
FirstSeen(list) ==
  {k \in DOMAIN list :
     \A j \in 1 .. k - 1 : DedupKey(list[j]) # DedupKey(list[k])}
\* the m-th smallest element of a set of positions
NthOf(positions, m) ==
  CHOOSE k \in positions : Cardinality({j \in positions : j <= k}) = m

\* C24: removeDuplicates returns the records of its input that are the
\* first with their dedup key, in the order of the input.
C24_FirstSeenKept ==
  lpc \in {"deduped", "dedupedTwice"} =>
    /\ Len(lDeduped) = Cardinality(FirstSeen(lInput))
    /\ \A m \in DOMAIN lDeduped : lDeduped[m] = lInput[NthOf(FirstSeen(lInput), m)]

\* C24 witness: the third record repeats the first, the second differs
C24_Witness ==
  /\ lpc = "deduped"
  /\ Len(lInput) = 3
  /\ lInput[3] = lInput[1]
  /\ DedupKey(lInput[2]) # DedupKey(lInput[1])
  /\ lDeduped = <<lInput[1], lInput[2]>>

\* C25: removeDuplicates drops a record only if an earlier record of the
\* input has the same title and the same link; records that differ in title
\* or in link are all kept.
C25_TitleAndLinkTogether ==
  lpc = "deduped" =>
    Len(lDeduped) =
      Cardinality({k \in DOMAIN lInput :
                     \A j \in 1 .. k - 1 :
                       lInput[j].title # lInput[k].title
                         \/ lInput[j].link # lInput[k].link})

\* C26: removeDuplicates applied to its own result returns it unchanged.
C26_DedupIdempotent ==
  lpc = "dedupedTwice" => lDedupedTwice = lDeduped

\* C26 witness: a list of three records with a duplicate, deduplicated twice
C26_Witness ==
  /\ lpc = "dedupedTwice"
  /\ Len(lInput) = 3
  /\ Len(lDeduped) = 2
  /\ lDedupedTwice = lDeduped

(***************************************************************************)
(* The buckets of the two grouping passes.                                 *)
(***************************************************************************)
\* the label a record is filed under: its own, or the fallback label
ExpectedLabel(record) ==
  IF record.feedParentTag = "" THEN DEFAULT_PARENT_TAG ELSE record.feedParentTag
\* the number of positions of list that hold record
Occurrences(list, record) == Cardinality({k \in DOMAIN list : list[k] = record})
RECURSIVE TotalRecords(_)
\* the number of records in all the groups
TotalRecords(groups) ==
  IF groups = <<>> THEN 0
  ELSE Len(Head(groups).articles) + TotalRecords(Tail(groups))

FetchedPosition(record) == CHOOSE k \in DOMAIN fArticles : fArticles[k] = record
\* newest first, records of equal date in the order they were fetched
NewestFirstStable(records) ==
  \A i, j \in DOMAIN records :
    i < j =>
      /\ DateGeq(records[i].pubDate, records[j].pubDate)
      /\ records[i].pubDate = records[j].pubDate =>
           FetchedPosition(records[i]) < FetchedPosition(records[j])

\* C28: the records of every bucket of the label pass and of the watch pass
\* are ordered newest first, records of equal date in their input order.
C28_BucketsNewestFirst ==
  /\ \A g \in DOMAIN processedData : NewestFirstStable(processedData[g].articles)
  /\ \A g \in DOMAIN keywordData : NewestFirstStable(keywordData[g].articles)

\* no two records of the list share a dedup key
DistinctKeys(records) ==
  \A i, j \in DOMAIN records :
    i # j => DedupKey(records[i]) # DedupKey(records[j])

\* C29: in every bucket of either pass, count is the number of records of
\* the bucket and no two of its records share a dedup key.
C29_BucketInvariant ==
  /\ \A g \in DOMAIN processedData :
       /\ processedData[g].count = Len(processedData[g].articles)
       /\ DistinctKeys(processedData[g].articles)
  /\ \A g \in DOMAIN keywordData :
       /\ keywordData[g].count = Len(keywordData[g].articles)
       /\ DistinctKeys(keywordData[g].articles)

\* C29 witness: a run that ended with a label bucket and a watch bucket of
\* two records each, out of three fetched
C29_Witness ==
  /\ fpc = "done"
  /\ Len(fArticles) = 3
  /\ \E g \in DOMAIN processedData : processedData[g].count = 2
  /\ \E g \in DOMAIN keywordData : keywordData[g].count = 2

\* C30: no summarization call is made with zero records, no bucket without
\* records is kept, and every label or watch document written is that of a
\* bucket with records.
C30_NoEmptyBucketDownstream ==
  /\ \A c \in DOMAIN summaryCalls : summaryCalls[c].n > 0
  /\ \A g \in DOMAIN processedData : processedData[g].articles # <<>>
  /\ \A g \in DOMAIN keywordData : keywordData[g].articles # <<>>
  /\ \A w \in DOMAIN writes :
       /\ writes[w].channel = "label" =>
            \E g \in DOMAIN processedData :
              /\ processedData[g].key = writes[w].key
              /\ processedData[g].articles # <<>>
       /\ writes[w].channel = "watch" =>
            \E g \in DOMAIN keywordData :
              /\ keywordData[g].key = writes[w].key
              /\ keywordData[g].articles # <<>>

\* C30 witness: of two watch words one matched no record; the run ended
\* with one watch bucket, summarized and written
C30_Witness ==
  /\ fpc = "done"
  /\ watchWords = <<"t1", "t2">>
  /\ Len(keywordData) = 1
  /\ Cardinality({c \in DOMAIN summaryCalls : summaryCalls[c].pass = "watch"}) = 1
  /\ Cardinality({w \in DOMAIN writes : writes[w].channel = "watch"}) = 1

(***************************************************************************)
(* Attempts in flight, and the values of maxRetries below zero.            *)
(***************************************************************************)
\* C37: within one call of a retry helper at most one invocation of the
\* operation is unsettled at any time, also after an attempt was ended by
\* the timeout of RetryManager.withTimeout.
C37_OneAttemptInFlight == rInFlight <= 1

\* the call of the helper has ended
RetryEnded == rpc \in {"returned", "thrown"}

\* C38: for every integer maxRetries, negative ones included, a call of a
\* retry helper that has ended has invoked the operation at least once and
\* ended by returning the operation's result or by throwing an error.
C38_InvokedAtLeastOnce ==
  RetryEnded =>
    /\ rCalls >= 1
    /\ \/ rpc = "returned" /\ rOut.kind = "value"
       \/ rpc = "thrown" /\ rOut.kind \in {"raw", "wrapped"}

(***************************************************************************)
(* The three helpers compared (checked under SpecScripted).                *)
(***************************************************************************)
\* C39: called with the same maxRetries and baseDelay and with operations
\* that settle alike, Utils.retry, ErrorHandler.retryWithLogging and
\* RetryManager.executeWithRetry (exponential backoff, no timeout) invoke
\* the operation the same number of times, sleep the same delays in the
\* same order, and end alike: returning on the same invocation, or throwing
\* after the same number of failures.
C39_HelpersEquivalent ==
  \A i, j \in DOMAIN eDone :
    /\ eDone[i].calls = eDone[j].calls
    /\ eDone[i].delays = eDone[j].delays
    /\ eDone[i].failures = eDone[j].failures
    /\ eDone[i].ended = eDone[j].ended
    /\ eDone[i].result = eDone[j].result

\* C39 witness: maxRetries = 2, the operation fails twice and then succeeds;
\* the three helpers have each returned on the third invocation
C39_Witness ==
  /\ Len(eDone) = 3
  /\ {eDone[i].impl : i \in DOMAIN eDone} = Impls
  /\ rMaxRetries = 2
  /\ eScript[1] = "reject" /\ eScript[2] = "reject" /\ eScript[3] = "resolve"
  /\ \A i \in DOMAIN eDone :
       /\ eDone[i].calls = 3
       /\ eDone[i].delays = <<rBaseDelay, 2 * rBaseDelay>>
       /\ eDone[i].ended = "returned"
       /\ eDone[i].result = 3

(***************************************************************************)
(* Overlapping runs, start times and live cron tasks.                      *)
(***************************************************************************)
\* run i has been started and has not ended
InProgress(i) == runs[i].pc = "running"

\* C33: a cron tick that fires while a run started by an earlier tick is in
\* progress starts a run all the same, and the earlier run stays in
\* progress: no guard skips the tick.
C33_TicksDoNotWait ==
  [][(ticks' = ticks + 1
        /\ \E i \in DOMAIN runs : runs[i].origin = "tick" /\ InProgress(i))
       => /\ Len(runs') > Len(runs)
          /\ runs'[Len(runs')].origin = "tick"
          /\ runs'[Len(runs')].calledAt = ticks'
          /\ runs'[Len(runs')].pc = "running"
          /\ \A i \in DOMAIN runs : runs'[i] = runs[i]]_vars

\* C33 witness: the runs started by the first and by the second tick are in
\* progress at the same time
C33_Witness ==
  \E i, j \in DOMAIN runs :
    /\ runs[i].origin = "tick" /\ runs[i].calledAt = 1 /\ InProgress(i)
    /\ runs[j].origin = "tick" /\ runs[j].calledAt = 2 /\ InProgress(j)

\* C35: every run the daemon starts, the initial one and the scheduled
\* ones, uses the time of its own start as its start time (the date of its
\* documents, the origin of its execution time).
C35_OwnStartTime ==
  \A i \in DOMAIN runs : runs[i].startTime = runs[i].calledAt

\* C36: when Scheduler.isRunning is true exactly one cron task is live, and
\* when it is false none is, whatever calls of start() and stop() were made.
C36_OneLiveTimer ==
  Cardinality(liveTimers) = IF isRunning THEN 1 ELSE 0

(***************************************************************************)
(* The fetch tasks of one aggregation.                                     *)
(***************************************************************************)
\* C34: while getAllArticles awaits its fetch tasks there is one task per
\* configured feed and every one of them has started (with maxRetries >= 0
\* it has made its first fetch), whatever the others are doing; and
\* getAllArticles has returned only when every task has settled.
C34_TasksStartTogether ==
  /\ apc = "fetching" =>
       /\ Len(feedPromises) = Len(feedsWithTags)
       /\ \A i \in DOMAIN feedPromises :
            /\ feedPromises[i].pc # "new"
            /\ aMaxRetries >= 0 => feedPromises[i].calls >= 1
  /\ apc = "done" =>
       /\ Len(feedPromises) = Len(feedsWithTags)
       /\ \A i \in DOMAIN feedPromises : feedPromises[i].pc = "settled"

\* C34 witness: the first feed waits in its retry delay, the second has
\* been fetched meanwhile, the third is still in its first fetch
C34_Witness ==
  /\ apc = "fetching"
  /\ Len(feedPromises) = 3
  /\ feedPromises[1].pc = "sleeping"
  /\ feedPromises[2].pc = "settled" /\ feedPromises[2].value.kind = "feed"
  /\ feedPromises[3].pc = "attempting" /\ feedPromises[3].calls = 1

(***************************************************************************)
(* The watch pass (checked under SpecList).                                *)
(***************************************************************************)
\* the positions of the watch words the text of record matches
MatchedTerms(record) ==
  {w \in DOMAIN lWords :
     Includes(ArticleContent(record), ToLowerCase(Chars(lWords[w])))}
\* the smallest element of a non-empty set of positions
FirstOf(positions) == CHOOSE w \in positions : \A v \in positions : w <= v

InTitleOrDescription(record, term) ==
  \/ Includes(ToLowerCase(Chars(record.title)), ToLowerCase(Chars(term)))
  \/ Includes(ToLowerCase(Chars(record.description)), ToLowerCase(Chars(term)))

\* C32: a record is in the bucket of a watch word only if its title or its
\* description contains the word, case ignored; a record whose title and
\* description contain no watch word is in no bucket; without watch words
\* there is no bucket.
C32_WatchMembership ==
  lpc = "watched" =>
    /\ \A g \in DOMAIN lWatched :
         \A m \in DOMAIN lWatched[g].articles :
           InTitleOrDescription(lWatched[g].articles[m], lWatched[g].key)
    /\ \A k \in DOMAIN lInput :
         (\A w \in DOMAIN lWords : ~InTitleOrDescription(lInput[k], lWords[w])) =>
           \A g \in DOMAIN lWatched : Occurrences(lWatched[g].articles, lInput[k]) = 0
    /\ lWords = <<>> => lWatched = <<>>

====
